---- MODULE Spec2Model ----
(***************************************************************************)
(* familyLedger: the SQLite store (books, members, records, budgets), the  *)
(* IPC bridge that wraps every store operation in a {success, data, error} *)
(* envelope, the aggregation queries, and the yearly report's monthly      *)
(* budget fallback.                                                        *)
(*                                                                         *)
(* Conventions of the model                                                *)
(*   - SQL NULL / JS null / a falsy member_id are the integer 0 (NoMember):*)
(*     the code maps a falsy member_id to null before it binds it.         *)
(*   - a date is the rank of its ISO string (2 is a later day than 1);     *)
(*     0 (NoDate) is the falsy value the filters treat as "no bound".      *)
(*   - a field a caller leaves out of a data object is a name that is not  *)
(*     in the DOMAIN of the record that models the object.                 *)
(*   - amounts are integers (an amount in the currency's smallest unit).   *)
(*   - a percentage is kept in hundredths of a percent: toFixed(2) of      *)
(*     12.345 is the integer 1235, and 100% is 10000.                      *)
(***************************************************************************)
EXTENDS Integers, Sequences, FiniteSets, TLC

VARIABLES
  books,         \* table books:   set of [id, name]
  members,       \* table members: set of [id, name]
  records,       \* table records: set of [id, book_id, member_id, direction, category, amount, date, note, created_at]
  budgets,       \* table budgets: set of [id, book_id, member_id, direction, category, amount, period, date]
  seq,           \* sqlite_sequence: the largest id AUTOINCREMENT has handed out, per table
  foreign_keys,  \* whether the connection enforces FOREIGN KEY clauses
  clock,         \* the second CURRENT_TIMESTAMP reads
  channel,       \* the IPC channel of the last call, "" before the first
  reply,         \* the envelope the last IPC call resolved to
  stmts,         \* number of SQL statements the last IPC call handed to the database
  activeLedgerId, \* renderer store: id of the active ledger, 0 for ''
  clientBudgets, \* renderer store: the Budget objects of data.budgets
  report,        \* ReportsView: the selected year and the 12 chartData rows it rendered
  app,           \* main process: [db, handlers, window, initFailed, quit]
  clientLedgers, \* renderer store: the ids of data.ledgers, in list order
  clientTransactions, \* renderer store: the Transaction objects of data.transactions
  pending,       \* replies of the main process the renderer has not yet resumed on, oldest first
  selected,      \* the last load setActiveLedger started: its ledger, and whether a load was in flight
  tzOffset       \* renderer: hours the local time zone is east of UTC

dbVars == <<books, members, records, budgets, seq, foreign_keys, clock>>
ipcVars == <<channel, reply, stmts>>
uiVars == <<activeLedgerId, clientBudgets, report>>
mainVars == <<app>>
storeVars == <<clientLedgers, clientTransactions, pending, selected, tzOffset>>
vars == <<books, members, records, budgets, seq, foreign_keys, clock, channel, reply, stmts, activeLedgerId, clientBudgets, report, app, clientLedgers, clientTransactions, pending, selected, tzOffset>>

-----------------------------------------------------------------------------
(* Values *)

NoMember == 0
NoDate == 0
NoText == ""

Directions == {"income", "expense"}
Periods == {"monthly", "quarterly", "yearly"}

\* BINARY collation of the category strings the model uses
CategoryOrder == <<"food", "rent", "salary">>
Collate(c) == CHOOSE i \in 1..Len(CategoryOrder) : CategoryOrder[i] = c

\* {} : an object with no field set
EmptyData == [f \in {} |-> 0]

Has(d, f) == f \in DOMAIN d
Field(d, f, dflt) == IF Has(d, f) THEN d[f] ELSE dflt

\* COALESCE(?, column) with an undefined parameter bound as NULL
Coalesce(d, f, old) == IF Has(d, f) THEN d[f] ELSE old

\* member_id ? Number(member_id) : null  followed by COALESCE(?, member_id)
CoalesceMember(d, old) == IF Has(d, "member_id") /\ d.member_id # NoMember THEN d.member_id ELSE old

RECURSIVE SumOver(_, _)
SumOver(S, f) ==
  IF S = {} THEN 0
  ELSE LET x == CHOOSE y \in S : TRUE IN f[x] + SumOver(S \ {x}, f)

\* SUM(amount) over a set of rows (rows differ by id, so a set loses none)
SumAmount(rows) == SumOver(rows, [r \in rows |-> r.amount])

\* all orderings of a finite set, as sequences
Perms(S) ==
  {s \in [1..Cardinality(S) -> S] : \A i, j \in 1..Cardinality(S) : i # j => s[i] # s[j]}

\* Number(x.toFixed(2)) of num/den*100, in hundredths of a percent (den > 0)
ToFixed2Percent(num, den) ==
  IF num >= 0 THEN (2 * num * 10000 + den) \div (2 * den)
  ELSE 0 - ((2 * (0 - num) * 10000 + den) \div (2 * den))

-----------------------------------------------------------------------------
(* Schema constraints (db.js createTables) *)

BookExists(id) == \E b \in books : b.id = id
MemberExists(id) == \E m \in members : m.id = id

\* FOREIGN KEY (book_id) REFERENCES books(id), FOREIGN KEY (member_id) REFERENCES members(id)
ForeignKeysHold(book_id, member_id) ==
  foreign_keys => (BookExists(book_id) /\ (member_id # NoMember => MemberExists(member_id)))

\* CHECK(direction IN ('income', 'expense'))
CheckDirection(direction) == direction \in Directions

\* CHECK(period IN ('monthly', 'quarterly', 'yearly'))
CheckPeriod(period) == period \in Periods

ConstraintError == "SQLITE_CONSTRAINT"
BudgetIncompleteError == "budget data incomplete: book_id, direction, category, amount, period, date are required"

\* what a store function did: it returned a value or threw an Error with a message,
\* after handing n statements to the database
Returned(v, n) == [threw |-> FALSE, value |-> v, stmts |-> n]
Threw(msg, n) == [threw |-> TRUE, value |-> msg, stmts |-> n]

\* { success: result.changes > 0, changes: result.changes }
MutationResult(changes) == [success |-> changes > 0, changes |-> changes]

-----------------------------------------------------------------------------
(* Store functions.  Each is an operator from the call's arguments and the   *)
(* current tables to what the function did (Returned / Threw) and the table  *)
(* it leaves behind.  A statement that violates a constraint throws inside   *)
(* db.run and changes nothing; run() hands the database the statement and,   *)
(* when it succeeded, SELECT last_insert_rowid().                            *)

\* books.js
addBook(data) ==
  IF Has(data, "name")
  THEN LET id == seq.books + 1
       IN [out |-> Returned([id |-> id, name |-> data.name], 2),
           books |-> books \cup {[id |-> id, name |-> data.name]}, id |-> id]
  ELSE [out |-> Threw(ConstraintError, 1), books |-> books, id |-> seq.books]

updateBook(id, data) ==
  LET hit == {b \in books : b.id = id}
  IN [out |-> Returned(MutationResult(Cardinality(hit)), 2),
      books |-> (books \ hit) \cup {[b EXCEPT !.name = Coalesce(data, "name", b.name)] : b \in hit}]

\* ON DELETE CASCADE removes the book's records and budgets when foreign keys are
\* enforced; sqlite3_changes() counts only the rows of books
deleteBook(id) ==
  LET hit == {b \in books : b.id = id}
      cascade == foreign_keys /\ hit # {}
  IN [out |-> Returned(MutationResult(Cardinality(hit)), 2),
      books |-> books \ hit,
      records |-> IF cascade THEN {r \in records : r.book_id # id} ELSE records,
      budgets |-> IF cascade THEN {b \in budgets : b.book_id # id} ELSE budgets]

\* members.js
addMember(data) ==
  IF Has(data, "name")
  THEN LET id == seq.members + 1
       IN [out |-> Returned([id |-> id, name |-> data.name], 2),
           members |-> members \cup {[id |-> id, name |-> data.name]}, id |-> id]
  ELSE [out |-> Threw(ConstraintError, 1), members |-> members, id |-> seq.members]

updateMember(id, data) ==
  LET hit == {m \in members : m.id = id}
  IN [out |-> Returned(MutationResult(Cardinality(hit)), 2),
      members |-> (members \ hit) \cup {[m EXCEPT !.name = Coalesce(data, "name", m.name)] : m \in hit}]

\* ON DELETE SET NULL clears member_id on records and budgets when foreign keys
\* are enforced
deleteMember(id) ==
  LET hit == {m \in members : m.id = id}
      setNull == foreign_keys /\ hit # {}
      Clear(rows) == {IF r.member_id = id THEN [r EXCEPT !.member_id = NoMember] ELSE r : r \in rows}
  IN [out |-> Returned(MutationResult(Cardinality(hit)), 2),
      members |-> members \ hit,
      records |-> IF setNull THEN Clear(records) ELSE records,
      budgets |-> IF setNull THEN Clear(budgets) ELSE budgets]

\* records.js
addRecord(data) ==
  LET member_id == Field(data, "member_id", NoMember)
      notNull == {"book_id", "direction", "category", "amount", "date"} \subseteq DOMAIN data
      ok == /\ notNull
            /\ CheckDirection(data.direction)
            /\ ForeignKeysHold(data.book_id, member_id)
      id == seq.records + 1
      row == [id |-> id, book_id |-> data.book_id, member_id |-> member_id,
              direction |-> data.direction, category |-> data.category,
              amount |-> data.amount, date |-> data.date, note |-> Field(data, "note", NoText),
              created_at |-> clock]
  IN IF ok
     THEN [out |-> Returned(row, 2), records |-> records \cup {row}, id |-> id]
     ELSE [out |-> Threw(ConstraintError, 1), records |-> records, id |-> seq.records]

updateRecord(id, data) ==
  LET hit == {r \in records : r.id = id}
      New(r) == [r EXCEPT !.member_id = CoalesceMember(data, r.member_id),
                          !.direction = Coalesce(data, "direction", r.direction),
                          !.category = Coalesce(data, "category", r.category),
                          !.amount = Coalesce(data, "amount", r.amount),
                          !.date = Coalesce(data, "date", r.date),
                          !.note = Coalesce(data, "note", r.note)]
      ok == \A r \in hit : CheckDirection(New(r).direction)
                           /\ ForeignKeysHold(New(r).book_id, New(r).member_id)
  IN IF ok
     THEN [out |-> Returned(MutationResult(Cardinality(hit)), 2),
           records |-> (records \ hit) \cup {New(r) : r \in hit}]
     ELSE [out |-> Threw(ConstraintError, 1), records |-> records]

deleteRecord(id) ==
  LET hit == {r \in records : r.id = id}
  IN [out |-> Returned(MutationResult(Cardinality(hit)), 2), records |-> records \ hit]

\* budgets.js
\* the child key an UPDATE rewrites is member_id only
MemberKeyHolds(member_id) == foreign_keys => (member_id # NoMember => MemberExists(member_id))

BudgetRequired == {"book_id", "direction", "category", "amount", "period", "date"}

\* a version whose SELECT lost the book_id condition: the newest row of the category
ExistingBudget_AnyBook(book_id, category) ==
  LET same == {b \in budgets : b.category = category}
  IN {b \in same : \A c \in same : c.id <= b.id}

\* SELECT id FROM budgets WHERE book_id = ? AND category = ? ORDER BY id DESC LIMIT 1
ExistingBudget(book_id, category) ==
  LET same == {b \in budgets : b.book_id = book_id /\ b.category = category}
  IN {b \in same : \A c \in same : c.id <= b.id}

\* the INSERT of a new budget row (budgets.js 127-143)
insertBudget(data) ==
  LET memberIdInt == Field(data, "member_id", NoMember)
      id == seq.budgets + 1
      row == [id |-> id, book_id |-> data.book_id, member_id |-> memberIdInt,
              direction |-> data.direction, category |-> data.category,
              amount |-> data.amount, period |-> data.period, date |-> data.date]
  IN IF /\ CheckDirection(data.direction)
        /\ CheckPeriod(data.period)
        /\ ForeignKeysHold(data.book_id, memberIdInt)
     THEN [out |-> Returned(row, 3), budgets |-> budgets \cup {row}, id |-> id]
     ELSE [out |-> Threw(ConstraintError, 2), budgets |-> budgets, id |-> seq.budgets]

\* the UPDATE of the newest row of the pair (budgets.js 103-125)
rewriteBudget(old, data) ==
  LET memberIdInt == Field(data, "member_id", NoMember)
      new == [old EXCEPT !.member_id = memberIdInt, !.direction = data.direction,
                         !.amount = data.amount, !.period = data.period, !.date = data.date]
  IN IF /\ CheckDirection(data.direction)
        /\ CheckPeriod(data.period)
        /\ MemberKeyHolds(memberIdInt)
     THEN [out |-> Returned([new EXCEPT !.book_id = data.book_id], 3),
           budgets |-> (budgets \ {old}) \cup {new}, id |-> seq.budgets]
     ELSE [out |-> Threw(ConstraintError, 2), budgets |-> budgets, id |-> seq.budgets]

\* a version that never looks for the pair's row: every call inserts
upsertBudget_AlwaysInserts(data) == insertBudget(data)

\* budgets.js 91-143: update the pair's newest row when there is one, insert otherwise
upsertBudget(data) ==
  LET existing == ExistingBudget(data.book_id, data.category)
  IN IF existing # {}
     THEN rewriteBudget(CHOOSE b \in existing : TRUE, data)
     ELSE insertBudget(data)

\* a version without the check of the required fields: the undefined field is bound
\* as NULL and the NOT NULL constraint rejects the row after the SELECT and the
\* INSERT were handed to the database
addBudget_NoValidation(data) ==
  IF ~(BudgetRequired \subseteq DOMAIN data)
  THEN [out |-> Threw(ConstraintError, 2), budgets |-> budgets, id |-> seq.budgets]
  ELSE upsertBudget(data)

addBudget(data) ==
  IF ~(BudgetRequired \subseteq DOMAIN data)
  THEN [out |-> Threw(BudgetIncompleteError, 0), budgets |-> budgets, id |-> seq.budgets]
  ELSE upsertBudget(data)

\* a version whose UPDATE is not held to the schema's CHECK on period
updateBudget_NoPeriodCheck(id, data) ==
  LET hit == {b \in budgets : b.id = id}
      New(b) == [b EXCEPT !.member_id = CoalesceMember(data, b.member_id),
                          !.direction = Coalesce(data, "direction", b.direction),
                          !.category = Coalesce(data, "category", b.category),
                          !.amount = Coalesce(data, "amount", b.amount),
                          !.period = Coalesce(data, "period", b.period),
                          !.date = Coalesce(data, "date", b.date)]
      ok == \A b \in hit : /\ CheckDirection(New(b).direction)
                           /\ MemberKeyHolds(New(b).member_id)
  IN IF ok
     THEN [out |-> Returned(MutationResult(Cardinality(hit)), 2),
           budgets |-> (budgets \ hit) \cup {New(b) : b \in hit}]
     ELSE [out |-> Threw(ConstraintError, 1), budgets |-> budgets]

\* a version that treats "no row matched" as a failure
updateBudget_ThrowsOnMiss(id, data) ==
  [out |-> Threw("budget not found", 1), budgets |-> budgets]

updateBudget(id, data) ==
  LET hit == {b \in budgets : b.id = id}
      New(b) == [b EXCEPT !.member_id = CoalesceMember(data, b.member_id),
                          !.direction = Coalesce(data, "direction", b.direction),
                          !.category = Coalesce(data, "category", b.category),
                          !.amount = Coalesce(data, "amount", b.amount),
                          !.period = Coalesce(data, "period", b.period),
                          !.date = Coalesce(data, "date", b.date)]
      ok == \A b \in hit : /\ CheckDirection(New(b).direction)
                           /\ CheckPeriod(New(b).period)
                           /\ MemberKeyHolds(New(b).member_id)
  IN IF ok
     THEN [out |-> Returned(MutationResult(Cardinality(hit)), 2),
           budgets |-> (budgets \ hit) \cup {New(b) : b \in hit}]
     ELSE [out |-> Threw(ConstraintError, 1), budgets |-> budgets]

deleteBudget(id) ==
  LET hit == {b \in budgets : b.id = id}
  IN [out |-> Returned(MutationResult(Cardinality(hit)), 2), budgets |-> budgets \ hit]

-----------------------------------------------------------------------------
(* Queries.  A query whose ORDER BY leaves ties open is the SET of row        *)
(* sequences the database may return.                                        *)

\* a version whose upper bound is exclusive
DateInRange_ExclusiveEnd(r, options) ==
  /\ Field(options, "startDate", NoDate) # NoDate => r.date >= options.startDate
  /\ Field(options, "endDate", NoDate) # NoDate => r.date < options.endDate

\* if (startDate) sql += ' AND date >= ?';  if (endDate) sql += ' AND date <= ?'
DateInRange(r, options) ==
  /\ Field(options, "startDate", NoDate) # NoDate => r.date >= options.startDate
  /\ Field(options, "endDate", NoDate) # NoDate => r.date <= options.endDate

\* if (member_id) sql += ' AND CAST(TRIM(CAST(member_id AS TEXT)) AS INTEGER) = ?'
MemberIsCast(r, options) ==
  Field(options, "member_id", NoMember) # NoMember =>
    (r.member_id # NoMember /\ r.member_id = options.member_id)

\* if (member_id) totalSql += ' AND member_id = ?'   (the raw parameter)
MemberIsRaw(r, options) ==
  Field(options, "member_id", NoMember) # NoMember =>
    (r.member_id # NoMember /\ r.member_id = options.member_id)

\* if (direction) sql += ' AND r.direction = ?';  if (category) sql += ' AND r.category = ?'
DirectionCategoryMatch(r, options) ==
  /\ Field(options, "direction", NoText) # NoText => r.direction = options.direction
  /\ Field(options, "category", NoText) # NoText => r.category = options.category

\* m.name as member_name of the LEFT JOIN: NULL when no member has the id
MemberName(member_id) ==
  IF MemberExists(member_id) THEN (CHOOSE m \in members : m.id = member_id).name ELSE NoText

\* ORDER BY r.date DESC, r.created_at DESC: rows equal in both keys come in the
\* order the database chooses
ListOrders(rows) ==
  {p \in Perms(rows) :
     \A i, j \in DOMAIN p :
       i < j => \/ p[i].date > p[j].date
                \/ (p[i].date = p[j].date /\ p[i].created_at >= p[j].created_at)}

\* if (limit) { LIMIT ?; if (offset) OFFSET ? }  (a negative LIMIT is no limit)
Page(p, options) ==
  LET limit == Field(options, "limit", 0)
      offset == IF limit # 0 /\ Field(options, "offset", 0) > 0 THEN options.offset ELSE 0
      last == IF limit > 0 /\ offset + limit < Len(p) THEN offset + limit ELSE Len(p)
  IN SubSeq(p, offset + 1, last)

listRecords(bookId, options) ==
  LET rows == {r \in records : /\ r.book_id = bookId
                               /\ DateInRange(r, options)
                               /\ DirectionCategoryMatch(r, options)
                               /\ MemberIsCast(r, options)}
      Row(r) == [id |-> r.id, book_id |-> r.book_id, member_id |-> r.member_id,
                 direction |-> r.direction, category |-> r.category, amount |-> r.amount,
                 date |-> r.date, note |-> r.note, created_at |-> r.created_at,
                 member_name |-> MemberName(r.member_id)]
  IN {Page([i \in DOMAIN p |-> Row(p[i])], options) : p \in ListOrders(rows)}

\* a version whose WHERE clause lost the book_id condition
getSummary_AllBooks(bookId, options) ==
  LET rows == {r \in records : DateInRange(r, options) /\ MemberIsCast(r, options)}
      income == SumOver(rows, [r \in rows |-> IF r.direction = "income" THEN r.amount ELSE 0])
      expense == SumOver(rows, [r \in rows |-> IF r.direction = "expense" THEN r.amount ELSE 0])
  IN [income |-> income, expense |-> expense, balance |-> income - expense]

getSummary(bookId, options) ==
  LET rows == {r \in records : r.book_id = bookId /\ DateInRange(r, options) /\ MemberIsCast(r, options)}
      income == SumOver(rows, [r \in rows |-> IF r.direction = "income" THEN r.amount ELSE 0])
      expense == SumOver(rows, [r \in rows |-> IF r.direction = "expense" THEN r.amount ELSE 0])
  IN [income |-> income, expense |-> expense, balance |-> income - expense]

\* const { direction = 'expense', ... } = options
SummaryDirection(options) == Field(options, "direction", "expense")

\* SELECT COALESCE(SUM(amount), 0) ... ; totalResult?.total || 0
GrandTotal(bookId, options) ==
  SumAmount({r \in records : /\ r.book_id = bookId
                             /\ r.direction = SummaryDirection(options)
                             /\ DateInRange(r, options)
                             /\ MemberIsRaw(r, options)})

\* SELECT category, SUM(amount) as total, COUNT(*) as count ... GROUP BY category
CategoryGroups(bookId, options) ==
  LET rows == {r \in records : /\ r.book_id = bookId
                               /\ r.direction = SummaryDirection(options)
                               /\ DateInRange(r, options)
                               /\ MemberIsCast(r, options)}
  IN {[category |-> c,
       total |-> SumAmount({r \in rows : r.category = c}),
       count |-> Cardinality({r \in rows : r.category = c})] : c \in {r.category : r \in rows}}

\* ORDER BY total DESC, then the percentage of each row
getCategorySummary(bookId, options) ==
  LET grandTotal == GrandTotal(bookId, options)
      groups == CategoryGroups(bookId, options)
      Item(g) == [category |-> g.category, total |-> g.total, count |-> g.count,
                  percentage |-> IF grandTotal > 0 THEN ToFixed2Percent(g.total, grandTotal) ELSE 0]
  IN {[i \in DOMAIN s |-> Item(s[i])] :
        s \in {p \in Perms(groups) : \A i, j \in DOMAIN p : i < j => p[i].total >= p[j].total}}

\* SELECT ... FROM budgets b LEFT JOIN members m ... WHERE book_id = ? ... ORDER BY b.category ASC
listBudgets(bookId, options) ==
  LET rows == {b \in budgets :
                 /\ b.book_id = bookId
                 /\ Field(options, "direction", NoText) # NoText => b.direction = options.direction
                 /\ Field(options, "period", NoText) # NoText => b.period = options.period
                 /\ MemberIsCast(b, options)}
      Row(b) == [k \in DOMAIN b \cup {"member_name"} |->
                   IF k = "member_name" THEN MemberName(b.member_id) ELSE b[k]]
  IN {[i \in DOMAIN p |-> Row(p[i])] :
        p \in {q \in Perms(rows) :
                 \A i, j \in DOMAIN q : i < j => Collate(q[i].category) <= Collate(q[j].category)}}

\* SELECT category, direction, SUM(amount) as actual ... GROUP BY category, direction,
\* read back through actualMap[`${direction}:${category}`] || 0
Actual(bookId, options, direction, category) ==
  SumAmount({r \in records : /\ r.book_id = bookId
                             /\ DateInRange(r, options)
                             /\ r.direction = direction
                             /\ r.category = category})

\* a version that also matches on the member: a budget of a member gets the
\* total of that member's records only
Actual_OfMember(bookId, options, budget) ==
  SumAmount({r \in records : /\ r.book_id = bookId
                             /\ DateInRange(r, options)
                             /\ r.direction = budget.direction
                             /\ r.category = budget.category
                             /\ (budget.member_id # NoMember => r.member_id = budget.member_id)})

getBudgetExecution_PerMember(bookId, options) ==
  {[i \in DOMAIN p |-> [budget |-> p[i],
                        actual |-> Actual_OfMember(bookId, options, p[i]),
                        remaining |-> p[i].amount - Actual_OfMember(bookId, options, p[i]),
                        percentage |-> IF p[i].amount > 0
                                       THEN ToFixed2Percent(Actual_OfMember(bookId, options, p[i]), p[i].amount)
                                       ELSE 0,
                        isOverBudget |-> p[i].amount - Actual_OfMember(bookId, options, p[i]) < 0]] :
     p \in {q \in Perms({b \in budgets : b.book_id = bookId}) :
              \A i, j \in DOMAIN q : i < j => Collate(q[i].category) <= Collate(q[j].category)}}

\* a version that flags a budget as over as soon as nothing remains
ExecutionRow_OverWhenExhausted(budget, actual) ==
  LET remaining == budget.amount - actual
  IN [budget |-> budget,
      actual |-> actual,
      remaining |-> remaining,
      percentage |-> IF budget.amount > 0 THEN ToFixed2Percent(actual, budget.amount) ELSE 0,
      isOverBudget |-> remaining <= 0]

ExecutionRow(budget, actual) ==
  LET remaining == budget.amount - actual
  IN [budget |-> budget,
      actual |-> actual,
      remaining |-> remaining,
      percentage |-> IF budget.amount > 0 THEN ToFixed2Percent(actual, budget.amount) ELSE 0,
      isOverBudget |-> remaining < 0]

\* a version that starts from the grouped actuals and so drops a budget nothing
\* was recorded against
getBudgetExecution_OnlySpent(bookId, options) ==
  LET Spent(b) == \E r \in records : /\ r.book_id = bookId
                                     /\ DateInRange(r, options)
                                     /\ r.direction = b.direction
                                     /\ r.category = b.category
      rows == {b \in budgets : b.book_id = bookId /\ Spent(b)}
  IN {[i \in DOMAIN p |-> ExecutionRow(p[i], Actual(bookId, options, p[i].direction, p[i].category))] :
        p \in {q \in Perms(rows) : \A i, j \in DOMAIN q : i < j => Collate(q[i].category) <= Collate(q[j].category)}}

getBudgetExecution(bookId, options) ==
  {[i \in DOMAIN p |-> ExecutionRow(p[i], Actual(bookId, options, p[i].direction, p[i].category))] :
     p \in listBudgets(bookId, EmptyData)}

-----------------------------------------------------------------------------
(* IPC bridge (ipc/handlers.js) *)

\* try { return { success: true, data: await handler(...args) } }
\* catch (error) { return { success: false, error: error.message } }
\* a version whose catch branch still carries a data field
wrapHandler_KeepsData(out) ==
  IF out.threw THEN [success |-> FALSE, error |-> out.value, data |-> out.value]
  ELSE [success |-> TRUE, data |-> out.value]

wrapHandler(out) ==
  IF out.threw THEN [success |-> FALSE, error |-> out.value]
  ELSE [success |-> TRUE, data |-> out.value]

\* the main process after app.whenReady's handler and initDatabase have run to
\* their ends: database open, handlers registered, window created
RunningApp == [db |-> TRUE, handlers |-> TRUE, window |-> TRUE, initFailed |-> FALSE, quit |-> FALSE]

\* setActiveLedger has started no load
NoLoad == [ledger |-> 0, overlap |-> FALSE]

\* defaultData of the store, no call in flight
IdleStore ==
  /\ clientLedgers = <<>>
  /\ clientTransactions = {}
  /\ pending = <<>>
  /\ selected = NoLoad
  /\ tzOffset = 0

\* ReportsView has not rendered
NoReport == [year |-> 0, chartData |-> <<>>]

\* the value of reply before the renderer has made any call
NoReply == [pending |-> TRUE]

\* rows AUTOINCREMENT has numbered so far, over the four tables
TotalInserted == seq.books + seq.members + seq.records + seq.budgets

\* ipcMain.handle(channel, wrapHandler(handler))
Ipc(ch, out) == channel' = ch /\ reply' = wrapHandler(out) /\ stmts' = out.stmts

\* books:add / books:update / books:delete
IpcBooksAdd(data) ==
  LET r == addBook(data)
  IN /\ Ipc("books:add", r.out)
     /\ books' = r.books
     /\ seq' = [seq EXCEPT !.books = r.id]
     /\ UNCHANGED <<members, records, budgets, foreign_keys, clock, uiVars, mainVars, storeVars>>

IpcBooksUpdate(id, data) ==
  LET r == updateBook(id, data)
  IN /\ Ipc("books:update", r.out)
     /\ books' = r.books
     /\ UNCHANGED <<members, records, budgets, seq, foreign_keys, clock, uiVars, mainVars, storeVars>>

IpcBooksDelete(id) ==
  LET r == deleteBook(id)
  IN /\ Ipc("books:delete", r.out)
     /\ books' = r.books
     /\ records' = r.records
     /\ budgets' = r.budgets
     /\ UNCHANGED <<members, seq, foreign_keys, clock, uiVars, mainVars, storeVars>>

\* members:add / members:update / members:delete
IpcMembersAdd(data) ==
  LET r == addMember(data)
  IN /\ Ipc("members:add", r.out)
     /\ members' = r.members
     /\ seq' = [seq EXCEPT !.members = r.id]
     /\ UNCHANGED <<books, records, budgets, foreign_keys, clock, uiVars, mainVars, storeVars>>

IpcMembersUpdate(id, data) ==
  LET r == updateMember(id, data)
  IN /\ Ipc("members:update", r.out)
     /\ members' = r.members
     /\ UNCHANGED <<books, records, budgets, seq, foreign_keys, clock, uiVars, mainVars, storeVars>>

IpcMembersDelete(id) ==
  LET r == deleteMember(id)
  IN /\ Ipc("members:delete", r.out)
     /\ members' = r.members
     /\ records' = r.records
     /\ budgets' = r.budgets
     /\ UNCHANGED <<books, seq, foreign_keys, clock, uiVars, mainVars, storeVars>>

\* records:add / records:update / records:delete
IpcRecordsAdd(data) ==
  LET r == addRecord(data)
  IN /\ Ipc("records:add", r.out)
     /\ records' = r.records
     /\ seq' = [seq EXCEPT !.records = r.id]
     /\ UNCHANGED <<books, members, budgets, foreign_keys, clock, uiVars, mainVars, storeVars>>

IpcRecordsUpdate(id, data) ==
  LET r == updateRecord(id, data)
  IN /\ Ipc("records:update", r.out)
     /\ records' = r.records
     /\ UNCHANGED <<books, members, budgets, seq, foreign_keys, clock, uiVars, mainVars, storeVars>>

IpcRecordsDelete(id) ==
  LET r == deleteRecord(id)
  IN /\ Ipc("records:delete", r.out)
     /\ records' = r.records
     /\ UNCHANGED <<books, members, budgets, seq, foreign_keys, clock, uiVars, mainVars, storeVars>>

\* budgets:add / budgets:update / budgets:delete
IpcBudgetsAdd(data) ==
  LET r == addBudget(data)
  IN /\ Ipc("budgets:add", r.out)
     /\ budgets' = r.budgets
     /\ seq' = [seq EXCEPT !.budgets = r.id]
     /\ UNCHANGED <<books, members, records, foreign_keys, clock, uiVars, mainVars, storeVars>>

IpcBudgetsUpdate(id, data) ==
  LET r == updateBudget(id, data)
  IN /\ Ipc("budgets:update", r.out)
     /\ budgets' = r.budgets
     /\ UNCHANGED <<books, members, records, seq, foreign_keys, clock, uiVars, mainVars, storeVars>>

IpcBudgetsDelete(id) ==
  LET r == deleteBudget(id)
  IN /\ Ipc("budgets:delete", r.out)
     /\ budgets' = r.budgets
     /\ UNCHANGED <<books, members, records, seq, foreign_keys, clock, uiVars, mainVars, storeVars>>

\* records:list
IpcRecordsList(bookId, options) ==
  /\ \E rows \in listRecords(bookId, options) : Ipc("records:list", Returned(rows, 1))
  /\ UNCHANGED <<dbVars, uiVars, mainVars, storeVars>>

\* the wall clock reaches the next second
Tick ==
  /\ clock' = clock + 1
  /\ UNCHANGED <<books, members, records, budgets, seq, foreign_keys, ipcVars, uiVars, mainVars, storeVars>>

\* records:summary / records:categorySummary / budgets:list / budgets:execution
IpcRecordsSummary(bookId, options) ==
  /\ Ipc("records:summary", Returned(getSummary(bookId, options), 1))
  /\ UNCHANGED <<dbVars, uiVars, mainVars, storeVars>>

IpcRecordsCategorySummary(bookId, options) ==
  /\ \E rows \in getCategorySummary(bookId, options) : Ipc("records:categorySummary", Returned(rows, 2))
  /\ UNCHANGED <<dbVars, uiVars, mainVars, storeVars>>

IpcBudgetsList(bookId, options) ==
  /\ \E rows \in listBudgets(bookId, options) : Ipc("budgets:list", Returned(rows, 1))
  /\ UNCHANGED <<dbVars, uiVars, mainVars, storeVars>>

IpcBudgetsExecution(bookId, options) ==
  /\ \E rows \in getBudgetExecution(bookId, options) : Ipc("budgets:execution", Returned(rows, 2))
  /\ UNCHANGED <<dbVars, uiVars, mainVars, storeVars>>

-----------------------------------------------------------------------------
(* Spec: every mutation of the four tables through the bridge, from the      *)
(* empty database the first start creates.                                   *)

\* rows the model lets AUTOINCREMENT number, over the four tables
MaxInserts == 3

BookInputs == {[name |-> "home"], EmptyData}
BookUpdates == {[name |-> "trip"]}
MemberInputs == {[name |-> "mom"]}
MemberUpdates == {[name |-> "dad"]}

RecordInput(b, m) ==
  [book_id |-> b, member_id |-> m, direction |-> "expense", category |-> "food",
   amount |-> 5, date |-> 1]
RecordInputs ==
  {RecordInput(1, 0), RecordInput(2, 1),
   [RecordInput(1, 0) EXCEPT !.direction = "refund"],
   [f \in DOMAIN RecordInput(1, 0) \ {"amount"} |-> RecordInput(1, 0)[f]]}
RecordUpdates == {[amount |-> 7], [direction |-> "refund"]}

BudgetInputA(b, c) ==
  [book_id |-> b, category |-> c, member_id |-> 0, direction |-> "expense",
   amount |-> 1, period |-> "monthly", date |-> 1]
BudgetInputB(b, c) ==
  [book_id |-> b, category |-> c, member_id |-> 1, direction |-> "income",
   amount |-> 2, period |-> "yearly", date |-> 2]
Without(d, f) == [g \in DOMAIN d \ {f} |-> d[g]]
CompleteBudgetInputs ==
  {BudgetInputA(1, "food"), BudgetInputB(1, "food"), BudgetInputA(1, "rent"),
   BudgetInputB(2, "food"), [BudgetInputA(1, "food") EXCEPT !.period = "weekly"],
   [BudgetInputA(1, "food") EXCEPT !.direction = "refund"]}
IncompleteBudgetInputs ==
  {Without(BudgetInputA(1, "food"), f) : f \in BudgetRequired} \cup {EmptyData}
BudgetInputs == CompleteBudgetInputs \cup IncompleteBudgetInputs
BudgetUpdates == {[category |-> "rent"], [period |-> "weekly"], [direction |-> "refund"]}

BookIds == {1, 2}

Init ==
  /\ books = {}
  /\ members = {}
  /\ records = {}
  /\ budgets = {}
  /\ seq = [books |-> 0, members |-> 0, records |-> 0, budgets |-> 0]
  /\ foreign_keys \in BOOLEAN
  /\ clock = 0
  /\ channel = ""
  /\ reply = NoReply
  /\ stmts = 0
  /\ activeLedgerId = 0
  /\ clientBudgets = {}
  /\ report = NoReport
  /\ app = RunningApp
  /\ IdleStore

Next ==
  \/ \E d \in BookInputs : TotalInserted < MaxInserts /\ IpcBooksAdd(d)
  \/ \E id \in 1..(seq.books + 1), d \in BookUpdates : IpcBooksUpdate(id, d)
  \/ \E id \in 1..(seq.books + 1) : IpcBooksDelete(id)
  \/ \E d \in MemberInputs : TotalInserted < MaxInserts /\ IpcMembersAdd(d)
  \/ \E id \in 1..(seq.members + 1), d \in MemberUpdates : IpcMembersUpdate(id, d)
  \/ \E id \in 1..(seq.members + 1) : IpcMembersDelete(id)
  \/ \E d \in RecordInputs : TotalInserted < MaxInserts /\ IpcRecordsAdd(d)
  \/ \E id \in 1..(seq.records + 1), d \in RecordUpdates : IpcRecordsUpdate(id, d)
  \/ \E id \in 1..(seq.records + 1) : IpcRecordsDelete(id)
  \/ \E d \in BudgetInputs : TotalInserted < MaxInserts /\ IpcBudgetsAdd(d)
  \/ \E id \in 1..(seq.budgets + 1), d \in BudgetUpdates : IpcBudgetsUpdate(id, d)
  \/ \E id \in 1..(seq.budgets + 1) : IpcBudgetsDelete(id)

Spec == Init /\ [][Next]_vars

-----------------------------------------------------------------------------
(* Properties of the store and the bridge, checked under Spec *)

\* at most one budget row per (book_id, category)
UniquePairs(rows) ==
  \A x, y \in rows : (x.book_id = y.book_id /\ x.category = y.category) => x = y

\* C5: an addBudget call that returns, made on a table with at most one row per
\* (book_id, category), leaves exactly one row for the call's pair; that row carries
\* the call's amount, direction, period, date and member_id; the rows of every other
\* pair are as they were, so the table still has at most one row per pair.
C5_AddBudgetUpserts ==
  [][\A d \in CompleteBudgetInputs :
       (IpcBudgetsAdd(d) /\ reply'.success /\ UniquePairs(budgets)) =>
         LET mine == {b \in budgets' : b.book_id = d.book_id /\ b.category = d.category}
         IN /\ Cardinality(mine) = 1
            /\ \A b \in mine : /\ b.amount = d.amount
                               /\ b.direction = d.direction
                               /\ b.period = d.period
                               /\ b.date = d.date
                               /\ b.member_id = d.member_id
            /\ budgets' \ mine = {b \in budgets : ~(b.book_id = d.book_id /\ b.category = d.category)}
            /\ UniquePairs(budgets')]_vars

\* an addBudget call has rewritten the row of an existing pair, in a table that
\* holds another pair too
C5_Witness ==
  /\ channel = "budgets:add" /\ Has(reply, "data")
  /\ reply.data.id < seq.budgets
  /\ \E b \in budgets : b.id = reply.data.id /\ b.amount = 2 /\ b.period = "yearly"
  /\ Cardinality(budgets) = 2
  /\ UniquePairs(budgets)

\* C8: every call through wrapHandler resolves to {success: true, data} or to
\* {success: false, error: <message of the Error thrown>} without a data field.
C8_EnvelopeShape ==
  reply # NoReply =>
    \/ DOMAIN reply = {"success", "data"} /\ reply.success = TRUE
    \/ /\ DOMAIN reply = {"success", "error"}
       /\ reply.success = FALSE
       /\ reply.error \in {ConstraintError, BudgetIncompleteError}

\* a store operation threw inside db.run and the call resolved to an error envelope,
\* the tables holding rows
C8_Witness ==
  /\ Has(reply, "error") /\ reply.error = ConstraintError
  /\ stmts > 0
  /\ books # {}

\* the envelope of an update or delete that matched no row
NoRowEnvelope == [success |-> TRUE, data |-> [success |-> FALSE, changes |-> 0]]

\* C9: an update or delete of a book, member, record or budget whose id matches no
\* row (an id never issued, or the id of a deleted row) resolves to a success
\* envelope whose data has changes = 0, and changes no table.
C9_MissingIdIsNoOp ==
  [][/\ channel' \in {"books:update", "books:delete"} =>
          \A id \in (1..(seq.books + 1)) \ {b.id : b \in books} :
            ((\E d \in BookUpdates : IpcBooksUpdate(id, d)) \/ IpcBooksDelete(id))
              => (reply' = NoRowEnvelope /\ UNCHANGED dbVars)
     /\ channel' \in {"members:update", "members:delete"} =>
          \A id \in (1..(seq.members + 1)) \ {m.id : m \in members} :
            ((\E d \in MemberUpdates : IpcMembersUpdate(id, d)) \/ IpcMembersDelete(id))
              => (reply' = NoRowEnvelope /\ UNCHANGED dbVars)
     /\ channel' \in {"records:update", "records:delete"} =>
          \A id \in (1..(seq.records + 1)) \ {r.id : r \in records} :
            ((\E d \in RecordUpdates : IpcRecordsUpdate(id, d)) \/ IpcRecordsDelete(id))
              => (reply' = NoRowEnvelope /\ UNCHANGED dbVars)
     /\ channel' \in {"budgets:update", "budgets:delete"} =>
          \A id \in (1..(seq.budgets + 1)) \ {b.id : b \in budgets} :
            ((\E d \in BudgetUpdates : IpcBudgetsUpdate(id, d)) \/ IpcBudgetsDelete(id))
              => (reply' = NoRowEnvelope /\ UNCHANGED dbVars)]_vars

\* an update or delete found no row, in a database whose four tables all hold a row
C9_Witness ==
  /\ channel \in {"budgets:update", "budgets:delete", "records:update", "records:delete"}
  /\ reply = NoRowEnvelope
  /\ books # {} /\ records # {} /\ budgets # {}

\* C10: an addBudget request that leaves out a required field resolves to an error
\* envelope before any statement reaches the database, and no table changes.
C10_IncompleteBudgetRejected ==
  [][\A d \in IncompleteBudgetInputs :
       IpcBudgetsAdd(d) =>
         /\ reply' = [success |-> FALSE, error |-> BudgetIncompleteError]
         /\ stmts' = 0
         /\ UNCHANGED dbVars]_vars

\* an incomplete request was rejected while the budgets table held rows
C10_Witness ==
  /\ channel = "budgets:add"
  /\ reply = [success |-> FALSE, error |-> BudgetIncompleteError]
  /\ stmts = 0
  /\ budgets # {}

\* every non-null member_id of a record or budget is the id of an existing member
MemberRefsValid ==
  /\ \A r \in records : r.member_id # NoMember => MemberExists(r.member_id)
  /\ \A b \in budgets : b.member_id # NoMember => MemberExists(b.member_id)

\* every record and budget has the id of an existing book as book_id
BookRefsValid ==
  /\ \A r \in records : BookExists(r.book_id)
  /\ \A b \in budgets : BookExists(b.book_id)

\* C11: deleteBook(id) on an existing book removes the book and every record and
\* budget whose book_id is id, and leaves the records and budgets of every other
\* book unchanged.
C11_DeleteBookCascades ==
  [][channel' = "books:delete" =>
       \A id \in {b.id : b \in books} :
         IpcBooksDelete(id) =>
           /\ books' = {b \in books : b.id # id}
           /\ records' = {r \in records : r.book_id # id}
           /\ budgets' = {b \in budgets : b.book_id # id}]_vars

\* C12: deleteMember(id) deletes no record and no budget: every record and budget
\* that referenced the member keeps its other fields and has member_id null, the
\* other rows are unchanged; and in every reachable state a non-null member_id of
\* a record or budget is the id of an existing member.
C12_DeleteMemberSetsNull ==
  [][/\ channel' = "members:delete" =>
          \A id \in {m.id : m \in members} :
            IpcMembersDelete(id) =>
              /\ records' = {IF r.member_id = id THEN [r EXCEPT !.member_id = NoMember] ELSE r : r \in records}
              /\ budgets' = {IF b.member_id = id THEN [b EXCEPT !.member_id = NoMember] ELSE b : b \in budgets}
     /\ MemberRefsValid']_vars

\* C13: in every reachable state every record and budget has a book_id that is the
\* id of an existing book, and an addRecord or addBudget that names a book that
\* does not exist resolves to an error envelope and stores nothing.
C13_BookOwnership ==
  [][/\ BookRefsValid'
     /\ channel' = "records:add" =>
          \A d \in RecordInputs :
            (Has(d, "book_id") /\ ~BookExists(d.book_id) /\ IpcRecordsAdd(d))
              => (~reply'.success /\ UNCHANGED <<books, members, records, budgets>>)
     /\ channel' = "budgets:add" =>
          \A d \in BudgetInputs :
            (Has(d, "book_id") /\ ~BookExists(d.book_id) /\ IpcBudgetsAdd(d))
              => (~reply'.success /\ UNCHANGED <<books, members, records, budgets>>)]_vars

\* every direction and period stored is a value of its enum
EnumsHold ==
  /\ \A r \in records : r.direction \in Directions
  /\ \A b \in budgets : b.direction \in Directions /\ b.period \in Periods

\* the data supplies a direction or a period outside its enum
OutsideEnum(d) ==
  \/ Has(d, "direction") /\ d.direction \notin Directions
  \/ Has(d, "period") /\ d.period \notin Periods

\* the call resolved to an error envelope and no table changed
Rejected ==
  /\ reply'.success = FALSE
  /\ Has(reply', "error")
  /\ UNCHANGED <<books, members, records, budgets, seq>>

\* an add with a value outside the enums is rejected
AddOutsideEnumRejected ==
  /\ channel' = "records:add" =>
       \A d \in RecordInputs : (OutsideEnum(d) /\ IpcRecordsAdd(d)) => Rejected
  /\ channel' = "budgets:add" =>
       \A d \in BudgetInputs : (OutsideEnum(d) /\ IpcBudgetsAdd(d)) => Rejected

\* C19 as stated: in every reachable state every record and budget has direction
\* in {income, expense} and every budget has period in {monthly, quarterly,
\* yearly}; an add or update that supplies any other value resolves to an error
\* envelope and leaves the tables unchanged, whichever id the update names.
C19_AnyUpdateOutsideEnumRejected ==
  [][/\ EnumsHold'
     /\ AddOutsideEnumRejected
     /\ channel' = "records:update" =>
          \A id \in 1..(seq.records + 1), d \in RecordUpdates :
            (OutsideEnum(d) /\ IpcRecordsUpdate(id, d)) => Rejected
     /\ channel' = "budgets:update" =>
          \A id \in 1..(seq.budgets + 1), d \in BudgetUpdates :
            (OutsideEnum(d) /\ IpcBudgetsUpdate(id, d)) => Rejected]_vars

\* C19: in every reachable state every record and budget has direction in
\* {income, expense} and every budget has period in {monthly, quarterly, yearly};
\* an add, or an update of a row that exists, that supplies any other value
\* resolves to an error envelope and leaves the tables unchanged.  An update that
\* names no row evaluates no CHECK: it is the no-op of C9.
C19_EnumsEnforced ==
  [][/\ EnumsHold'
     /\ AddOutsideEnumRejected
     /\ channel' = "records:update" =>
          \A id \in {r.id : r \in records}, d \in RecordUpdates :
            (OutsideEnum(d) /\ IpcRecordsUpdate(id, d)) => Rejected
     /\ channel' = "budgets:update" =>
          \A id \in {b.id : b \in budgets}, d \in BudgetUpdates :
            (OutsideEnum(d) /\ IpcBudgetsUpdate(id, d)) => Rejected]_vars

\* budgets:update was refused by a CHECK (the member key of a budget is not
\* touched by BudgetUpdates) and the budgets it named are still as they were
C19_Witness ==
  /\ channel = "budgets:update"
  /\ reply = [success |-> FALSE, error |-> ConstraintError]
  /\ budgets # {}
  /\ EnumsHold

-----------------------------------------------------------------------------
(* SpecQuery: the aggregation queries over a database file that an earlier   *)
(* session left with two books and one member.  Records and budgets are      *)
(* added through the bridge; the three queries are called through it.        *)

\* records and budgets, together, the model lets the session add
MaxQueryRows == 3

QueryRecord(b, m, dir, cat, amt, day) ==
  [book_id |-> b, member_id |-> m, direction |-> dir, category |-> cat, amount |-> amt, date |-> day]
QueryRecordInputs ==
  {QueryRecord(1, 0, "expense", "food", 3, 1),
   QueryRecord(1, 0, "expense", "food", 1, 2),
   QueryRecord(1, 0, "expense", "rent", 0 - 1, 1),
   QueryRecord(1, 0, "expense", "rent", 1, 2),
   QueryRecord(1, 0, "income", "salary", 3, 1),
   QueryRecord(1, 0, "income", "salary", 0 - 1, 2),
   QueryRecord(1, 1, "expense", "food", 1, 1),
   QueryRecord(1, 1, "income", "salary", 1, 2),
   QueryRecord(2, 0, "expense", "food", 3, 1)}

QueryBudget(b, dir, cat, amt) ==
  [book_id |-> b, direction |-> dir, category |-> cat, amount |-> amt, period |-> "monthly", date |-> 1]
QueryBudgetInputs ==
  {QueryBudget(1, "expense", "food", 3),
   QueryBudget(1, "expense", "food", 0),
   QueryBudget(1, "expense", "rent", 0 - 1),
   QueryBudget(1, "income", "salary", 3),
   QueryBudget(2, "expense", "food", 3)}

\* budgets:update moves a budget to the category of another and gives it a member
QueryBudgetUpdates == {[category |-> "food", member_id |-> 1]}

\* the filters the renderer sends with a query in this specification
QueryOptions == {EmptyData, [startDate |-> 2]}

\* every filter {startDate, endDate, member_id} over the model's days and members
Days == {1, 2}
SummaryFilters ==
  {[startDate |-> s, endDate |-> e, member_id |-> m] : s \in Days \cup {NoDate}, e \in Days \cup {NoDate}, m \in {NoMember, 1}}
CategoryFilters ==
  {[direction |-> d, startDate |-> f.startDate, endDate |-> f.endDate, member_id |-> f.member_id] :
     d \in Directions, f \in SummaryFilters}
Windows ==
  {[startDate |-> s, endDate |-> e] : s \in Days \cup {NoDate}, e \in Days \cup {NoDate}}

InitQuery ==
  /\ books = {[id |-> 1, name |-> "home"], [id |-> 2, name |-> "trip"]}
  /\ members = {[id |-> 1, name |-> "mom"]}
  /\ records = {}
  /\ budgets = {}
  /\ seq = [books |-> 2, members |-> 1, records |-> 0, budgets |-> 0]
  /\ foreign_keys = TRUE
  /\ clock = 0
  /\ channel = ""
  /\ reply = NoReply
  /\ stmts = 0
  /\ activeLedgerId = 0
  /\ clientBudgets = {}
  /\ report = NoReport
  /\ app = RunningApp
  /\ IdleStore

NextQuery ==
  \/ \E d \in QueryRecordInputs : seq.records + seq.budgets < MaxQueryRows /\ IpcRecordsAdd(d)
  \/ \E d \in QueryBudgetInputs : seq.records + seq.budgets < MaxQueryRows /\ IpcBudgetsAdd(d)
  \/ \E id \in 1..seq.budgets, d \in QueryBudgetUpdates : IpcBudgetsUpdate(id, d)
  \/ \E b \in BookIds, o \in QueryOptions : IpcRecordsSummary(b, o)
  \/ \E b \in BookIds, o \in QueryOptions : IpcRecordsCategorySummary(b, o)
  \/ \E b \in BookIds, o \in QueryOptions : IpcBudgetsExecution(b, o)

SpecQuery == InitQuery /\ [][NextQuery]_vars

-----------------------------------------------------------------------------
(* Properties of the aggregation queries, checked under SpecQuery *)

\* the records of ledger b a filter {startDate, endDate, member_id} selects
Matching(b, f) ==
  {r \in records : /\ r.book_id = b
                   /\ (f.startDate = NoDate \/ f.startDate <= r.date)
                   /\ (f.endDate = NoDate \/ r.date <= f.endDate)
                   /\ (f.member_id = NoMember \/ r.member_id = f.member_id)}

\* what getSummary reports is the sums of the matching records by direction
SummarySums ==
  \A b \in BookIds, f \in SummaryFilters :
    LET s == getSummary(b, f)
    IN /\ s.income = SumAmount({r \in Matching(b, f) : r.direction = "income"})
       /\ s.expense = SumAmount({r \in Matching(b, f) : r.direction = "expense"})
       /\ s.balance = s.income - s.expense

\* C1: for every record set and filter, getSummary returns income and expense as the
\* sums of the matching income and expense records, balance = income - expense, and
\* income >= 0 and expense >= 0.
C1_SummaryCorrect ==
  /\ SummarySums
  /\ \A b \in BookIds, f \in SummaryFilters :
       getSummary(b, f).income >= 0 /\ getSummary(b, f).expense >= 0

\* the totals of the rows getCategorySummary returns add up to the grand total, and
\* every percentage is 0 when the grand total is 0
CategoryPartition ==
  \A b \in BookIds, f \in CategoryFilters :
    LET grandTotal == SumAmount({r \in Matching(b, f) : r.direction = f.direction})
    IN \A rows \in getCategorySummary(b, f) :
         /\ SumOver(DOMAIN rows, [i \in DOMAIN rows |-> rows[i].total]) = grandTotal
         /\ grandTotal = 0 => \A i \in DOMAIN rows : rows[i].percentage = 0

\* C2: for every record set and filter, the totals of the rows of getCategorySummary
\* add up to the grand total of the direction, every percentage lies in [0, 100]
\* (0..10000 hundredths), and every percentage is 0 when the grand total is 0.
C2_CategoryPartition ==
  /\ CategoryPartition
  /\ \A b \in BookIds, f \in CategoryFilters :
       \A rows \in getCategorySummary(b, f) :
         \A i \in DOMAIN rows : rows[i].percentage >= 0 /\ rows[i].percentage <= 10000

\* the records of ledger b, in window w, of a budget's (direction, category)
RecordsOf(b, w, budget) ==
  {r \in records : /\ r.book_id = b
                   /\ (w.startDate = NoDate \/ w.startDate <= r.date)
                   /\ (w.endDate = NoDate \/ r.date <= w.endDate)
                   /\ r.direction = budget.direction
                   /\ r.category = budget.category}

\* getBudgetExecution returns exactly one row per budget of the ledger
OneRowPerBudget(b, rows) ==
  LET mine == {x \in budgets : x.book_id = b}
  IN /\ Len(rows) = Cardinality(mine)
     /\ \A x \in mine :
          Cardinality({i \in DOMAIN rows :
                         \A k \in DOMAIN x : k \in DOMAIN rows[i].budget /\ rows[i].budget[k] = x[k]}) = 1

\* C3 as stated: one row per budget of the ledger, and a budget with no matching
\* record in the window has actual = 0, remaining = amount and isOverBudget = false.
C3_Original ==
  \A b \in BookIds, w \in Windows :
    \A rows \in getBudgetExecution(b, w) :
      /\ OneRowPerBudget(b, rows)
      /\ \A i \in DOMAIN rows :
           RecordsOf(b, w, rows[i].budget) = {} =>
             /\ rows[i].actual = 0
             /\ rows[i].remaining = rows[i].budget.amount
             /\ rows[i].isOverBudget = FALSE

\* C3 (amended): one row per budget of the ledger, and a budget with no matching
\* record in the window has actual = 0, remaining = amount, and isOverBudget exactly
\* when its amount is negative (so false for every amount >= 0).
C3_ExecutionComplete ==
  \A b \in BookIds, w \in Windows :
    \A rows \in getBudgetExecution(b, w) :
      /\ OneRowPerBudget(b, rows)
      /\ \A i \in DOMAIN rows :
           RecordsOf(b, w, rows[i].budget) = {} =>
             /\ rows[i].actual = 0
             /\ rows[i].remaining = rows[i].budget.amount
             /\ rows[i].isOverBudget = (rows[i].budget.amount < 0)

\* budgets:execution returned two rows, one of a budget nothing was recorded
\* against, while the ledger has records
C3_Witness ==
  /\ channel = "budgets:execution"
  /\ Len(reply.data) = 2
  /\ \E i \in DOMAIN reply.data :
       /\ reply.data[i].actual = 0
       /\ ~reply.data[i].isOverBudget
       /\ \A r \in records : ~(r.direction = reply.data[i].budget.direction
                                /\ r.category = reply.data[i].budget.category)
  /\ \E r \in records : r.book_id = 1

\* C4: for every row of getBudgetExecution, remaining = amount - actual; if amount > 0
\* then isOverBudget holds exactly when actual > amount; if amount = 0 then
\* percentage = 0 (and the quotient actual / amount is never formed).
C4_OverBudgetFlag ==
  \A b \in BookIds, w \in Windows :
    \A rows \in getBudgetExecution(b, w) :
      \A i \in DOMAIN rows :
        /\ rows[i].actual = SumAmount(RecordsOf(b, w, rows[i].budget))
        /\ rows[i].remaining = rows[i].budget.amount - rows[i].actual
        /\ rows[i].budget.amount > 0 => (rows[i].isOverBudget <=> rows[i].actual > rows[i].budget.amount)
        /\ rows[i].budget.amount = 0 => rows[i].percentage = 0

\* budgets:execution returned a row whose positive budget is exceeded and a state
\* holds a budget of amount 0 with spending against it
C4_Witness ==
  /\ channel = "budgets:execution"
  /\ \E i \in DOMAIN reply.data :
       /\ reply.data[i].budget.amount > 0
       /\ reply.data[i].actual > reply.data[i].budget.amount
       /\ reply.data[i].isOverBudget

ZeroSummary == [income |-> 0, expense |-> 0, balance |-> 0]

\* ledger b has no record and no budget
LedgerEmpty(b) == (\A r \in records : r.book_id # b) /\ (\A x \in budgets : x.book_id # b)

\* C7: on a ledger with no records and no budgets getSummary returns
\* {income: 0, expense: 0, balance: 0}, getCategorySummary returns [] and
\* getBudgetExecution returns [], for every filter, and the three calls resolve to
\* success envelopes carrying these results (each checked at the steps of its channel).
C7_EmptyLedger ==
  [][\A b \in BookIds :
       LedgerEmpty(b) =>
         /\ channel' = "records:summary" =>
              /\ \A f \in SummaryFilters : getSummary(b, f) = ZeroSummary
              /\ \A o \in QueryOptions :
                   IpcRecordsSummary(b, o) => reply' = [success |-> TRUE, data |-> ZeroSummary]
         /\ channel' = "records:categorySummary" =>
              /\ \A f \in CategoryFilters : getCategorySummary(b, f) = {<<>>}
              /\ \A o \in QueryOptions :
                   IpcRecordsCategorySummary(b, o) => reply' = [success |-> TRUE, data |-> <<>>]
         /\ channel' = "budgets:execution" =>
              /\ \A w \in Windows : getBudgetExecution(b, w) = {<<>>}
              /\ \A o \in QueryOptions :
                   IpcBudgetsExecution(b, o) => reply' = [success |-> TRUE, data |-> <<>>]]_vars

\* records:summary answered with zeros for the empty ledger 2 while ledger 1 holds
\* records and a budget
C7_Witness ==
  /\ channel = "records:summary"
  /\ reply = [success |-> TRUE, data |-> ZeroSummary]
  /\ LedgerEmpty(2)
  /\ \E r \in records : r.book_id = 1 /\ r.amount > 0 /\ r.member_id = NoMember /\ r.date = 2
  /\ \E x \in budgets : x.book_id = 1

\* C14: getBudgetExecution matches actual spend to a budget by (direction,
\* category) only: the actual of every row, also of a budget that has a member_id,
\* is the total of all records of the ledger with the budget's direction and
\* category in the window, whatever their member; two budgets with the same
\* (direction, category) get the same actual.
C14_ActualByDirectionCategory ==
  \A b \in BookIds, w \in Windows :
    \A rows \in getBudgetExecution(b, w) :
      /\ \A i \in DOMAIN rows :
           rows[i].actual =
             SumAmount({r \in records : /\ r.book_id = b
                                        /\ (w.startDate = NoDate \/ w.startDate <= r.date)
                                        /\ (w.endDate = NoDate \/ r.date <= w.endDate)
                                        /\ r.direction = rows[i].budget.direction
                                        /\ r.category = rows[i].budget.category})
      /\ \A i, j \in DOMAIN rows :
           (rows[i].budget.direction = rows[j].budget.direction
              /\ rows[i].budget.category = rows[j].budget.category)
             => rows[i].actual = rows[j].actual

\* budgets:execution returned two budgets of one (direction, category), one of
\* them a member's, both with the total of a record that belongs to no member
C14_Witness ==
  /\ channel = "budgets:execution"
  /\ Len(reply.data) = 2
  /\ reply.data[1].budget.category = reply.data[2].budget.category
  /\ reply.data[1].budget.direction = reply.data[2].budget.direction
  /\ \E i \in 1..2 : reply.data[i].budget.member_id = 1
  /\ reply.data[1].actual = 3 /\ reply.data[2].actual = 3
  /\ \E r \in records : r.member_id = NoMember /\ r.amount = 3
                        /\ r.category = reply.data[1].budget.category
                        /\ r.direction = reply.data[1].budget.direction

\* C15: the rows of getCategorySummary are ordered by total descending, rows with
\* equal total by category ascending, so the record set determines the result.
C15_CategoryOrderDetermined ==
  \A b \in BookIds, f \in CategoryFilters :
    /\ Cardinality(getCategorySummary(b, f)) = 1
    /\ \A rows \in getCategorySummary(b, f) :
         \A i, j \in DOMAIN rows :
           i < j => \/ rows[i].total > rows[j].total
                    \/ /\ rows[i].total = rows[j].total
                       /\ Collate(rows[i].category) < Collate(rows[j].category)

\* what ORDER BY total DESC does guarantee: no row is followed by a row of a
\* larger total
CategoryOrderByTotal ==
  \A b \in BookIds, f \in CategoryFilters :
    \A rows \in getCategorySummary(b, f) :
      \A i, j \in DOMAIN rows : i < j => rows[i].total >= rows[j].total

-----------------------------------------------------------------------------
(* SpecList: records:list beside the two summaries, over records added in    *)
(* the same and in different clock seconds.                                  *)

\* records the model lets the session add
MaxListRows == 2
\* seconds the model lets the clock advance
MaxClock == 1

ListRecordInputs ==
  {QueryRecord(1, 0, "expense", "food", 3, 1),
   QueryRecord(1, 0, "expense", "food", 1, 2),
   QueryRecord(1, 1, "income", "salary", 2, 2),
   QueryRecord(2, 0, "expense", "food", 3, 1)}

ListOptions ==
  {EmptyData, [startDate |-> 2], [endDate |-> 1, member_id |-> 1],
   [limit |-> 1], [limit |-> 1, offset |-> 1], [offset |-> 1]}

InitList ==
  /\ books = {[id |-> 1, name |-> "home"], [id |-> 2, name |-> "trip"]}
  /\ members = {[id |-> 1, name |-> "mom"]}
  /\ records = {}
  /\ budgets = {}
  /\ seq = [books |-> 2, members |-> 1, records |-> 0, budgets |-> 0]
  /\ foreign_keys = TRUE
  /\ clock = 0
  /\ channel = ""
  /\ reply = NoReply
  /\ stmts = 0
  /\ activeLedgerId = 0
  /\ clientBudgets = {}
  /\ report = NoReport
  /\ app = RunningApp
  /\ IdleStore

NextList ==
  \/ \E d \in ListRecordInputs : seq.records < MaxListRows /\ IpcRecordsAdd(d)
  \/ clock < MaxClock /\ Tick
  \/ \E b \in BookIds, o \in ListOptions : IpcRecordsList(b, o)
  \/ \E b \in BookIds, o \in ListOptions : IpcRecordsSummary(b, o)
  \/ \E b \in BookIds, o \in ListOptions : IpcRecordsCategorySummary(b, o)

SpecList == InitList /\ [][NextList]_vars

(* Properties of records:list, checked under SpecList *)

\* C16: listRecords returns rows ordered by date descending, and of two records
\* with the same date the one added later (the larger AUTOINCREMENT id) comes
\* first, also when both were added within the same clock second.
C16_ListOrder ==
  \A b \in BookIds, f \in SummaryFilters :
    \A rows \in listRecords(b, f) :
      \A i, j \in DOMAIN rows :
        i < j => \/ rows[i].date > rows[j].date
                 \/ (rows[i].date = rows[j].date /\ rows[i].id > rows[j].id)

\* what the ORDER BY does guarantee: date descending, and for equal dates the row
\* of the later second first
ListOrderBySecond ==
  \A b \in BookIds, f \in SummaryFilters :
    \A rows \in listRecords(b, f) :
      \A i, j \in DOMAIN rows :
        i < j => \/ rows[i].date > rows[j].date
                 \/ (rows[i].date = rows[j].date /\ rows[i].created_at >= rows[j].created_at)

\* the records of ledger b with startDate <= date <= endDate (an absent bound does
\* not restrict) and, when the filter names a member, of that member
Selected(b, f) ==
  {r \in records : /\ r.book_id = b
                   /\ (f.startDate # NoDate => f.startDate <= r.date)
                   /\ (f.endDate # NoDate => r.date <= f.endDate)
                   /\ (f.member_id # NoMember => r.member_id = f.member_id)}

\* the sum of the amounts of the listed rows of a direction (and category)
ListedSum(rows, direction, categories) ==
  SumOver({i \in DOMAIN rows : rows[i].direction = direction /\ rows[i].category \in categories},
          [i \in DOMAIN rows |-> rows[i].amount])

AllCategories == {CategoryOrder[i] : i \in DOMAIN CategoryOrder}

\* C17: for every ledger and filter {startDate, endDate, member_id}, listRecords
\* returns exactly the records with startDate <= date <= endDate of the member,
\* getSummary's income and expense are the sums of the amounts of the listed rows
\* of direction income and expense, and getCategorySummary's rows for a direction
\* are the per-category sums and counts of the listed rows of that direction.
C17_SameSelection ==
  \A b \in BookIds, f \in SummaryFilters :
    \A rows \in listRecords(b, f) :
      /\ Len(rows) = Cardinality(Selected(b, f))
      /\ {rows[i].id : i \in DOMAIN rows} = {r.id : r \in Selected(b, f)}
      /\ getSummary(b, f).income = ListedSum(rows, "income", AllCategories)
      /\ getSummary(b, f).expense = ListedSum(rows, "expense", AllCategories)
      /\ \A d \in Directions :
           \A groups \in getCategorySummary(b, [direction |-> d, startDate |-> f.startDate,
                                                endDate |-> f.endDate, member_id |-> f.member_id]) :
             /\ {groups[k].category : k \in DOMAIN groups}
                  = {rows[i].category : i \in {n \in DOMAIN rows : rows[n].direction = d}}
             /\ \A k \in DOMAIN groups :
                  /\ groups[k].total = ListedSum(rows, d, {groups[k].category})
                  /\ groups[k].count = Cardinality({i \in DOMAIN rows :
                                                      rows[i].direction = d
                                                      /\ rows[i].category = groups[k].category})

\* records:list answered a filtered request: it returned the one record of day 2
\* of a ledger that also holds a record of day 1 and a record of a member
C17_Witness ==
  /\ channel = "records:list"
  /\ Len(reply.data) = 1
  /\ reply.data[1].book_id = 1 /\ reply.data[1].date = 2
  /\ \E r \in records : r.book_id = 1 /\ r.date = 1
  /\ \E r \in records : r.book_id = 1 /\ r.member_id = 1

-----------------------------------------------------------------------------
(* SpecRecords: the records of one ledger, added, edited and deleted through *)
(* the bridge.                                                               *)

\* records the model lets the session add
MaxRecordRows == 2

EditRecordInputs == {QueryRecord(1, 0, "expense", "food", 5, 1)}

\* the data objects of records:update: a new amount, member_id: null (what the
\* renderer sends to take the member off), every other field at once, and a
\* direction the schema does not allow
RecordEdits ==
  {[amount |-> 0 - 7],
   [member_id |-> NoMember],
   [member_id |-> 1, direction |-> "income", category |-> "salary", date |-> 2, note |-> "gift"],
   [direction |-> "refund"]}

InitRecords ==
  /\ books = {[id |-> 1, name |-> "home"]}
  /\ members = {[id |-> 1, name |-> "mom"]}
  /\ records = {}
  /\ budgets = {}
  /\ seq = [books |-> 1, members |-> 1, records |-> 0, budgets |-> 0]
  /\ foreign_keys \in BOOLEAN
  /\ clock = 0
  /\ channel = ""
  /\ reply = NoReply
  /\ stmts = 0
  /\ activeLedgerId = 0
  /\ clientBudgets = {}
  /\ report = NoReport
  /\ app = RunningApp
  /\ IdleStore

NextRecords ==
  \/ \E d \in EditRecordInputs : seq.records < MaxRecordRows /\ IpcRecordsAdd(d)
  \/ \E id \in 1..seq.records, d \in RecordEdits : IpcRecordsUpdate(id, d)
  \/ \E id \in 1..seq.records : IpcRecordsDelete(id)

SpecRecords == InitRecords /\ [][NextRecords]_vars

(* Properties of the records table, checked under SpecRecords *)

\* C18: every stored record has amount >= 0.
C18_AmountsNonNegative == \A r \in records : r.amount >= 0

UpdatableFields == {"member_id", "direction", "category", "amount", "date", "note"}

\* C20: an updateRecord(id, data) that returns sets, on the record with that id,
\* exactly the fields present in data (among member_id, direction, category,
\* amount, date, note) to the supplied values, keeps its id, book_id and
\* created_at, and changes no other record.
C20_UpdateRecordFrame ==
  [][channel' = "records:update" =>
       \A old \in records, d \in RecordEdits :
         (IpcRecordsUpdate(old.id, d) /\ reply'.success) =>
           \E new \in records' :
             /\ new.id = old.id /\ new.book_id = old.book_id /\ new.created_at = old.created_at
             /\ \A f \in UpdatableFields : new[f] = IF Has(d, f) THEN d[f] ELSE old[f]
             /\ records' \ {new} = records \ {old}]_vars

\* what updateRecord does: as C20, except that a member_id of null in data leaves
\* the record's member as it is
UpdateRecordKeepsMemberOnNull ==
  [][channel' = "records:update" =>
       \A old \in records, d \in RecordEdits :
         (IpcRecordsUpdate(old.id, d) /\ reply'.success) =>
           \E new \in records' :
             /\ new.id = old.id /\ new.book_id = old.book_id /\ new.created_at = old.created_at
             /\ \A f \in UpdatableFields \ {"member_id"} : new[f] = IF Has(d, f) THEN d[f] ELSE old[f]
             /\ new.member_id = IF Has(d, "member_id") /\ d.member_id # NoMember
                                THEN d.member_id ELSE old.member_id
             /\ records' \ {new} = records \ {old}]_vars

\* options with the page (limit, offset) added
WithPage(f, limit, offset) ==
  [k \in DOMAIN f \cup {"limit", "offset"} |->
     IF k = "limit" THEN limit ELSE IF k = "offset" THEN offset ELSE f[k]]

PageFilters == {EmptyData, [startDate |-> 2]}
PageLimits == 1..2
\* page numbers: enough pages of the smallest limit to pass the last row
PageNumbers == 0..MaxListRows

\* the pages 0..k of a run of calls, one after the other
RECURSIVE Concat(_, _)
Concat(ps, k) == IF k = 0 THEN ps[0] ELSE Concat(ps, k - 1) \o ps[k]

\* C24: listRecords with limit L > 0 and offset O >= 0 returns the rows at
\* positions O .. O+L-1 of the full ordered result for the same filter;
\* consecutive pages (offset 0, L, 2L, ...) are disjoint and their concatenation
\* is the full ordered result; an offset without a limit returns the full result.
C24_Pagination ==
  \A b \in BookIds, f \in PageFilters :
    LET full == listRecords(b, f)
    IN /\ \A L \in PageLimits, O \in PageNumbers :
            \A page \in listRecords(b, WithPage(f, L, O)) :
              \E whole \in full :
                page = SubSeq(whole, O + 1, IF O + L < Len(whole) THEN O + L ELSE Len(whole))
       /\ \A L \in PageLimits :
            \A ps \in [PageNumbers -> UNION {listRecords(b, WithPage(f, L, k * L)) : k \in PageNumbers}] :
              (\A k \in PageNumbers : ps[k] \in listRecords(b, WithPage(f, L, k * L))) =>
                /\ Concat(ps, MaxListRows) \in full
                /\ \A j, k \in PageNumbers :
                     j # k => {ps[j][i].id : i \in DOMAIN ps[j]} \cap {ps[k][i].id : i \in DOMAIN ps[k]} = {}
       /\ \A O \in PageNumbers :
            listRecords(b, [k \in DOMAIN f \cup {"offset"} |-> IF k = "offset" THEN O ELSE f[k]]) = full

\* no two records of a book share both the date and the second of creation
NoOrderTies ==
  \A r1, r2 \in records :
    (r1.book_id = r2.book_id /\ r1.date = r2.date /\ r1.created_at = r2.created_at) => r1 = r2

\* The pages are consistent in every state whose ORDER BY leaves no tie open.
PaginationWithoutTies == NoOrderTies => C24_Pagination

-----------------------------------------------------------------------------
(* ReportsView: the per-month budget figures of the yearly report.  A figure *)
(* is the exact quotient num / den (den > 0) of two integers.                *)

Months == 1..12

Whole(n) == [num |-> n, den |-> 1]
SameFigure(a, b) == a.num * b.den = b.num * a.den

\* budgets.filter(b => b.ledgerId === activeLedgerId)
activeBudgets == {b \in clientBudgets : b.ledgerId = activeLedgerId}

\* yearly budgets of the direction and year, and the sum of their amounts
totalYearlyBudget(type, year) ==
  SumAmount({b \in activeBudgets : b.period = "yearly" /\ b.type = type /\ b.year = year})

\* monthlyExpenseBudgetMap / monthlyIncomeBudgetMap: month -> sum of the month's
\* monthly budgets
monthlyBudgetMap(type, year) ==
  [month \in Months |->
     SumAmount({b \in activeBudgets :
                  b.period = "monthly" /\ b.type = type /\ b.year = year /\ b.month = month})]

totalMonthlyBudget(type, year) ==
  SumOver(Months, monthlyBudgetMap(type, year))

\* Object.values(map).filter(v => v === 0).length
monthsWithoutBudget(type, year) ==
  Cardinality({month \in Months : monthlyBudgetMap(type, year)[month] = 0})

\* monthsWithout > 0 ? remainingYearly / monthsWithout : 0
defaultMonthlyBudget(type, year) ==
  IF monthsWithoutBudget(type, year) > 0
  THEN [num |-> totalYearlyBudget(type, year) - totalMonthlyBudget(type, year),
        den |-> monthsWithoutBudget(type, year)]
  ELSE Whole(0)

\* map[month] > 0 ? map[month] : default
monthBudget(type, year, month) ==
  IF monthlyBudgetMap(type, year)[month] > 0
  THEN Whole(monthlyBudgetMap(type, year)[month])
  ELSE defaultMonthlyBudget(type, year)

chartData(year) ==
  [i \in Months |-> [month |-> i,
                     expenseBudget |-> monthBudget("expense", year, i),
                     incomeBudget |-> monthBudget("income", year, i)]]

\* setYear(y) and the render that follows
SelectYear(y) ==
  /\ report' = [year |-> y, chartData |-> chartData(y)]
  /\ UNCHANGED <<dbVars, ipcVars, activeLedgerId, clientBudgets, mainVars, storeVars>>

(* SpecReport: the report over the budget lists the store can hold *)

ClientBudget(id, ledger, type, cat, amt, period, year, month) ==
  [id |-> id, ledgerId |-> ledger, type |-> type, categoryId |-> cat, amount |-> amt,
   period |-> period, year |-> year, month |-> month]

YearlyPool ==
  {ClientBudget(101, 1, "expense", "food", 1200, "yearly", 2024, 1),
   ClientBudget(102, 1, "expense", "rent", 600, "yearly", 2024, 1),
   ClientBudget(103, 1, "income", "salary", 2400, "yearly", 2024, 1)}

\* explicit monthly budgets of 100 for food, one per month of the set
MonthSets == {{}, {1}, {1, 2}, {2, 5}, Months}
MonthlyFood(ms) == {ClientBudget(m, 1, "expense", "food", 100, "monthly", 2024, m) : m \in ms}

ExtraPool ==
  {ClientBudget(201, 1, "expense", "rent", 0, "monthly", 2024, 3),
   ClientBudget(202, 1, "expense", "rent", 0 - 100, "monthly", 2024, 5),
   ClientBudget(203, 1, "expense", "rent", 50, "monthly", 2024, 1),
   ClientBudget(204, 2, "expense", "food", 100, "monthly", 2024, 6),
   ClientBudget(205, 1, "expense", "food", 1200, "yearly", 2023, 1),
   ClientBudget(206, 1, "income", "salary", 200, "monthly", 2024, 1)}

ReportYears == {2023, 2024}

InitReport ==
  /\ books = {[id |-> 1, name |-> "home"], [id |-> 2, name |-> "trip"]}
  /\ members = {}
  /\ records = {}
  /\ budgets = {}
  /\ seq = [books |-> 2, members |-> 0, records |-> 0, budgets |-> 0]
  /\ foreign_keys = TRUE
  /\ clock = 0
  /\ channel = ""
  /\ reply = NoReply
  /\ stmts = 0
  /\ activeLedgerId = 1
  /\ \E ys \in SUBSET YearlyPool, ms \in MonthSets, xs \in SUBSET ExtraPool :
       clientBudgets = ys \cup MonthlyFood(ms) \cup xs
  /\ report = NoReport
  /\ app = RunningApp
  /\ IdleStore

NextReport == \E y \in ReportYears : SelectYear(y)

SpecReport == InitReport /\ [][NextReport]_vars

(* Properties of the report *)

ReportTypes == {"expense", "income"}

\* the figure the rendered row shows for the direction
Figure(row, type) == IF type = "expense" THEN row.expenseBudget ELSE row.incomeBudget

YearlyOf(type, year) ==
  {b \in clientBudgets : b.ledgerId = activeLedgerId /\ b.type = type
                         /\ b.year = year /\ b.period = "yearly"}
MonthlyOf(type, year) ==
  {b \in clientBudgets : b.ledgerId = activeLedgerId /\ b.type = type
                         /\ b.year = year /\ b.period = "monthly"}
ExplicitOf(type, year, m) == {b \in MonthlyOf(type, year) : b.month = m}

\* yearly total minus the sum of all monthly budgets
Remainder(type, year) == SumAmount(YearlyOf(type, year)) - SumAmount(MonthlyOf(type, year))

Rendered == report.year # 0

\* the months that have no monthly budget object of the direction and year
LackingObject(type, year) == {m \in Months : ExplicitOf(type, year, m) = {}}

\* C6: in the yearly report, for a direction and year, every month that has no
\* explicit monthly budget shows (sum of the yearly budgets - sum of the explicit
\* monthly budgets of the year) / (number of the 12 months without an explicit
\* monthly budget), and a month with an explicit monthly budget shows the total of
\* its own explicit budgets.
C6_Original ==
  Rendered =>
    \A type \in ReportTypes, m \in Months :
      LET fig == Figure(report.chartData[m], type)
          lacking == LackingObject(type, report.year)
      IN IF m \in lacking
         THEN SameFigure(fig, [num |-> Remainder(type, report.year),
                               den |-> Cardinality(lacking)])
         ELSE fig = Whole(SumAmount(ExplicitOf(type, report.year, m)))

\* months whose monthly budgets sum to exactly 0
ZeroMonths(type, year) == {m \in Months : SumAmount(ExplicitOf(type, year, m)) = 0}

\* What the report computes: a month whose monthly
\* budgets sum to more than 0 shows that sum; every other month shows
\* (sum of the yearly budgets - sum of all monthly budgets) divided by the
\* number of months whose monthly budgets sum to exactly 0, and 0 when there is
\* no such month.  A yearly budget of 1200 with two months of 100 and nothing
\* else therefore shows 100 for each of the 10 other months.
FallbackAsComputed ==
  Rendered =>
    \A type \in ReportTypes, m \in Months :
      LET fig == Figure(report.chartData[m], type)
          own == SumAmount(ExplicitOf(type, report.year, m))
          zero == ZeroMonths(type, report.year)
      IN /\ own > 0 => fig = Whole(own)
         /\ own <= 0 /\ zero # {} =>
              SameFigure(fig, [num |-> Remainder(type, report.year),
                               den |-> Cardinality(zero)])
         /\ own <= 0 /\ zero = {} => fig = Whole(0)
         /\ ( /\ SumAmount(YearlyOf(type, report.year)) = 1200
              /\ Cardinality(LackingObject(type, report.year)) = 10
              /\ \A k \in Months \ LackingObject(type, report.year) :
                   SumAmount(ExplicitOf(type, report.year, k)) = 100
              /\ m \in LackingObject(type, report.year) )
            => SameFigure(fig, Whole(100))

\* the report of 2024 is rendered for a yearly expense budget of 1200 with
\* explicit budgets of 100 in January and February only
FallbackExample ==
  /\ report.year = 2024
  /\ SumAmount(YearlyOf("expense", 2024)) = 1200
  /\ LackingObject("expense", 2024) = 3..12
  /\ SumAmount(ExplicitOf("expense", 2024, 1)) = 100
  /\ SumAmount(ExplicitOf("expense", 2024, 2)) = 100
  /\ \A m \in 3..12 : SameFigure(report.chartData[m].expenseBudget, Whole(100))

-----------------------------------------------------------------------------
(* Store (renderer) outside Electron: the budget list lives in the client    *)
(* state only (store.tsx, the !isElectron() branches).  An id drawn by       *)
(* Math.random().toString(36) is an id no entry of the list has.             *)

\* month of a budget whose month is undefined
NoMonth == 0

\* a version of the predicate that leaves the month out of the key
SameBudgetKey_NoMonth(b, budget) ==
  /\ b.ledgerId = budget.ledgerId
  /\ b.categoryId = budget.categoryId
  /\ b.year = budget.year
  /\ b.period = budget.period

\* the predicate of budgets.find in setBudget
SameBudgetKey(b, budget) ==
  /\ b.ledgerId = budget.ledgerId
  /\ b.categoryId = budget.categoryId
  /\ b.year = budget.year
  /\ b.period = budget.period
  /\ (budget.period = "monthly" => b.month = budget.month)

\* the list after setData(prev => ...) of setBudget: exists is an entry find
\* returned, newId the id drawn for an appended entry
setBudgetLocal(budget, newId) ==
  LET found == {b \in clientBudgets : SameBudgetKey(b, budget)}
  IN IF found # {}
     THEN {(clientBudgets \ {b \in clientBudgets : b.id = exists.id})
             \cup {[budget EXCEPT !.id = exists.id]} : exists \in found}
     ELSE {clientBudgets \cup {[budget EXCEPT !.id = newId]}}

\* prev.budgets.filter(b => b.id !== id)
deleteBudgetLocal(id) == {b \in clientBudgets : b.id # id}

(* SpecLocal: BudgetView saving and deleting budgets; ReportsView is not       *)
(* mounted, the figures it would render are the operators of its section     *)

\* entries the client list may hold
MaxClientBudgets == 3

LocalIds == 1..(MaxClientBudgets + 1)

LocalBudgetInputs ==
  {ClientBudget(0, 1, "expense", "food", 1200, "yearly", 2024, NoMonth),
   ClientBudget(0, 1, "expense", "food", 100, "monthly", 2024, 1),
   ClientBudget(0, 1, "expense", "food", 150, "monthly", 2024, 1),
   ClientBudget(0, 1, "expense", "food", 100, "monthly", 2024, 2),
   ClientBudget(0, 1, "expense", "rent", 50, "monthly", 2024, 1),
   ClientBudget(0, 1, "expense", "rent", 600, "yearly", 2024, NoMonth),
   ClientBudget(0, 2, "expense", "food", 100, "monthly", 2024, 1)}

SetBudgetLocal(budget) ==
  /\ \E newId \in LocalIds \ {b.id : b \in clientBudgets} :
       clientBudgets' \in setBudgetLocal(budget, newId)
  /\ UNCHANGED <<dbVars, ipcVars, activeLedgerId, report, mainVars, storeVars>>

DeleteBudgetLocal(id) ==
  /\ clientBudgets' = deleteBudgetLocal(id)
  /\ UNCHANGED <<dbVars, ipcVars, activeLedgerId, report, mainVars, storeVars>>

InitLocal ==
  /\ books = {}
  /\ members = {}
  /\ records = {}
  /\ budgets = {}
  /\ seq = [books |-> 0, members |-> 0, records |-> 0, budgets |-> 0]
  /\ foreign_keys = TRUE
  /\ clock = 0
  /\ channel = ""
  /\ reply = NoReply
  /\ stmts = 0
  /\ activeLedgerId = 1
  /\ clientBudgets = {}
  /\ report = NoReport
  /\ app = RunningApp
  /\ IdleStore

NextLocal ==
  \/ \E budget \in LocalBudgetInputs :
       /\ Cardinality(clientBudgets) < MaxClientBudgets
       /\ SetBudgetLocal(budget)
  \/ \E id \in LocalIds : DeleteBudgetLocal(id)

SpecLocal == InitLocal /\ [][NextLocal]_vars

(* Properties of the client budget list *)

LocalCategories == {b.categoryId : b \in LocalBudgetInputs}

\* monthly budgets of the active ledger for a category, direction and year
MonthlyOfCategory(cat, type, year) == {b \in MonthlyOf(type, year) : b.categoryId = cat}

\* the months the report counts as lacking a budget of the direction
monthsCountedWithout(type, year) == {m \in Months : monthlyBudgetMap(type, year)[m] = 0}

\* the step changed explicit monthly budgets of category cat, direction type and
\* the year, and no other budget
OnlyMonthlyChanged(cat, type, year) ==
  /\ MonthlyOfCategory(cat, type, year)' # MonthlyOfCategory(cat, type, year)
  /\ clientBudgets' \ MonthlyOfCategory(cat, type, year)'
       = clientBudgets \ MonthlyOfCategory(cat, type, year)

\* C21: adding, changing or removing an explicit monthly budget of category Y
\* changes, for a different category X that has budgets of the same direction and
\* year, neither the figure of a month without an explicit budget of X nor the
\* months counted as lacking a budget.
C21_FallbackPerCategory ==
  [][\A Y \in LocalCategories, type \in ReportTypes, year \in ReportYears :
       OnlyMonthlyChanged(Y, type, year) =>
         \A X \in LocalCategories \ {Y} :
           (\E b \in YearlyOf(type, year) : b.categoryId = X) =>
             /\ monthsCountedWithout(type, year)' = monthsCountedWithout(type, year)
             /\ \A m \in Months :
                  (\A b \in MonthlyOfCategory(X, type, year) : b.month # m) =>
                    SameFigure(monthBudget(type, year, m)', monthBudget(type, year, m))]_vars

\* the key of a budget: ledger, category, period, year, and the month of a
\* monthly budget
BudgetKey(b) ==
  <<b.ledgerId, b.categoryId, b.period, b.year, IF b.period = "monthly" THEN b.month ELSE NoMonth>>

\* C23: outside Electron the client budget list holds at most one budget per key
\* (ledgerId, categoryId, period, year, and month when period is monthly); a
\* setBudget whose key already exists replaces that entry keeping its id, and a
\* setBudget with a new key appends one entry and changes no other.
C23_OneBudgetPerKey ==
  [][/\ \A a, b \in clientBudgets' : BudgetKey(a) = BudgetKey(b) => a = b
     /\ \A budget \in LocalBudgetInputs :
          SetBudgetLocal(budget) =>
            LET same == {e \in clientBudgets : BudgetKey(e) = BudgetKey(budget)}
            IN IF same # {}
               THEN \E e \in same :
                      clientBudgets' = (clientBudgets \ {e}) \cup {[budget EXCEPT !.id = e.id]}
               ELSE \E new \in clientBudgets' :
                      /\ new.id \notin {b.id : b \in clientBudgets}
                      /\ [new EXCEPT !.id = budget.id] = budget
                      /\ clientBudgets' \ {new} = clientBudgets]_vars

\* the list holds a yearly budget and monthly budgets of January and February for
\* the same ledger and category, January's set to 150
C23_Witness ==
  /\ Cardinality(clientBudgets) = 3
  /\ \E a, b, c \in clientBudgets :
       /\ {a.categoryId, b.categoryId, c.categoryId} = {"food"}
       /\ {a.ledgerId, b.ledgerId, c.ledgerId} = {1}
       /\ a.period = "yearly"
       /\ b.period = "monthly" /\ b.month = 1 /\ b.amount = 150
       /\ c.period = "monthly" /\ c.month = 2

-----------------------------------------------------------------------------
(* main.js: the start of the application.  initDatabase is an async function *)
(* whose first await is initSqlJs(); the whenReady handler calls it without  *)
(* await, so the handler's next statements run before that await resumes.    *)

\* the main process when app.whenReady() resolves
LaunchedApp == [db |-> FALSE, handlers |-> FALSE, window |-> FALSE, initFailed |-> FALSE, quit |-> FALSE]

\* error.message of the TypeError db.prepare / db.run throw while db is null
UninitialisedError == "Cannot read properties of null"

\* main.js 47-61: initDatabase() runs up to await initSqlJs() and returns its
\* promise, which is dropped; registerAllHandlers() and createWindow() follow in
\* the same turn, and the catch block sees no error
WhenReady ==
  /\ app = LaunchedApp
  /\ app' = [app EXCEPT !.handlers = TRUE, !.window = TRUE]
  /\ UNCHANGED <<dbVars, ipcVars, uiVars, storeVars>>

\* db.js 46-74: initSqlJs() resolved; the database is opened and its tables created
initDatabaseResumes ==
  /\ app.handlers /\ ~app.db /\ ~app.initFailed /\ ~app.quit
  /\ app' = [app EXCEPT !.db = TRUE]
  /\ UNCHANGED <<dbVars, ipcVars, uiVars, storeVars>>

\* initSqlJs() rejected, or a statement after it threw: the promise initDatabase
\* returned rejects, nothing awaits it, and the catch block of main.js never runs
initDatabaseRejects ==
  /\ app.handlers /\ ~app.db /\ ~app.initFailed /\ ~app.quit
  /\ app' = [app EXCEPT !.initFailed = TRUE]
  /\ UNCHANGED <<dbVars, ipcVars, uiVars, storeVars>>

\* the renderer's first calls (loadData: books:list, members:list) reach a handler
\* while db is null: queryAll throws on db.prepare and wrapHandler answers
IpcUninitialised(ch) ==
  /\ app.handlers /\ app.window /\ ~app.db /\ ~app.quit
  /\ Ipc(ch, Threw(UninitialisedError, 0))
  /\ UNCHANGED <<dbVars, uiVars, mainVars, storeVars>>

\* main.js 75-79: window-all-closed on a platform other than darwin
WindowAllClosed ==
  /\ app.window /\ ~app.quit
  /\ app' = [app EXCEPT !.window = FALSE, !.quit = TRUE]
  /\ UNCHANGED <<dbVars, ipcVars, uiVars, storeVars>>

\* the renderer can call the bridge and the database is open
Serving == app.window /\ app.db /\ ~app.quit

(* SpecStartup: from app.whenReady to the first calls of the renderer *)

InitStartup ==
  /\ books = {}
  /\ members = {}
  /\ records = {}
  /\ budgets = {}
  /\ seq = [books |-> 0, members |-> 0, records |-> 0, budgets |-> 0]
  /\ foreign_keys \in BOOLEAN
  /\ clock = 0
  /\ channel = ""
  /\ reply = NoReply
  /\ stmts = 0
  /\ activeLedgerId = 0
  /\ clientBudgets = {}
  /\ report = NoReport
  /\ app = LaunchedApp
  /\ IdleStore

NextStartup ==
  \/ WhenReady
  \/ initDatabaseResumes
  \/ initDatabaseRejects
  \/ \E ch \in {"books:list", "members:list"} : IpcUninitialised(ch)
  \/ WindowAllClosed
  \/ \E d \in BookInputs : Serving /\ TotalInserted < MaxInserts /\ IpcBooksAdd(d)
  \/ \E d \in MemberInputs : Serving /\ TotalInserted < MaxInserts /\ IpcMembersAdd(d)
  \/ \E d \in RecordInputs : Serving /\ TotalInserted < MaxInserts /\ IpcRecordsAdd(d)

SpecStartup == InitStartup /\ [][NextStartup]_vars

\* C22: the database is initialised before the IPC handlers are registered and
\* the window is created, no IPC request is executed while the database handle
\* is uninitialised, and a failure of the initialisation leads to app.quit().
C22_DatabaseReadyBeforeIpc ==
  /\ app.handlers => (app.db \/ app.quit)
  /\ app.window => (app.db \/ app.quit)
  /\ Has(reply, "error") => reply.error # UninitialisedError
  /\ app.initFailed => app.quit

-----------------------------------------------------------------------------
(* services/api: the conversions between the renderer's objects and the       *)
(* rows of the store.  A date string YYYY-MM-DD is the integer YYYYMMDD,      *)
(* which orders as the string does.                                          *)

Iso(y, m, d) == y * 10000 + m * 100 + d
YearOf(date) == date \div 10000
MonthOf(date) == (date \div 100) % 100
DayOf(date) == date % 100

IsLeap(y) == (y % 4 = 0 /\ y % 100 # 0) \/ y % 400 = 0
DaysInMonth(y, m) ==
  IF m = 2 THEN (IF IsLeap(y) THEN 29 ELSE 28)
  ELSE IF m \in {4, 6, 9, 11} THEN 30 ELSE 31

\* the calendar day before date
PrevDay(date) ==
  LET y == YearOf(date)
      m == MonthOf(date)
      d == DayOf(date)
  IN IF d > 1 THEN Iso(y, m, d - 1)
     ELSE IF m > 1 THEN Iso(y, m - 1, DaysInMonth(y, m - 1))
     ELSE Iso(y - 1, 12, 31)

\* new Date(y, m - 1, 1).toISOString().split('T')[0]: the UTC date of local
\* midnight, which is the day before in a zone east of UTC
LocalMidnightToIsoDate(date, tz) == IF tz > 0 THEN PrevDay(date) ELSE date

\* new Date('YYYY-MM-DD') read with getFullYear / getMonth: the local date of UTC
\* midnight, which is the day before in a zone west of UTC
IsoDateToLocal(date, tz) == IF tz < 0 THEN PrevDay(date) ELSE date

\* the date apiService.budgets.add / update send: the first of (month || 1)
budgetDate(budget) ==
  LocalMidnightToIsoDate(Iso(budget.year, IF budget.month = NoMonth THEN 1 ELSE budget.month, 1),
                         tzOffset)

dbBudgetToBudget(row, ledgerId) ==
  LET dateObj == IsoDateToLocal(row.date, tzOffset)
  IN [id |-> row.id, ledgerId |-> ledgerId, type |-> row.direction,
      categoryId |-> row.category, amount |-> row.amount,
      period |-> IF row.period = "quarterly" THEN "monthly" ELSE row.period,
      year |-> YearOf(dateObj), month |-> MonthOf(dateObj)]

dbRecordToTransaction(row, ledgerId) ==
  [id |-> row.id, ledgerId |-> ledgerId, type |-> row.direction, amount |-> row.amount,
   date |-> row.date, categoryId |-> row.category, memberId |-> row.member_id]

\* transactionToDbRecord: a falsy memberId is left undefined
transactionToDbRecord(t) ==
  LET base == [book_id |-> t.ledgerId, direction |-> t.type, category |-> t.categoryId,
               amount |-> t.amount, date |-> t.date]
  IN IF t.memberId # NoMember
     THEN [k \in DOMAIN base \cup {"member_id"} |-> IF k = "member_id" THEN t.memberId ELSE base[k]]
     ELSE base

\* the data object of apiService.budgets.add
budgetToDbBudget(budget) ==
  [book_id |-> budget.ledgerId, direction |-> budget.type, category |-> budget.categoryId,
   amount |-> budget.amount, period |-> budget.period, date |-> budgetDate(budget)]

\* updateData of apiService.budgets.update: the date only when the month is defined
budgetToUpdateData(budget) ==
  LET base == [direction |-> budget.type, category |-> budget.categoryId,
               amount |-> budget.amount, period |-> budget.period]
  IN IF budget.month # NoMonth
     THEN [k \in DOMAIN base \cup {"date"} |-> IF k = "date" THEN budgetDate(budget) ELSE base[k]]
     ELSE base

-----------------------------------------------------------------------------
(* Store (renderer) in Electron.  A store function runs to its await in the   *)
(* turn of the call: the request is sent and the main process handles the    *)
(* requests in the order they were sent, so the request is executed here in  *)
(* the step of the call and its reply queued in pending.  Resume is the turn *)
(* in which the oldest reply arrives and the function continues after its    *)
(* await.  The store's code itself puts no order on the replies of two       *)
(* calls; SpecSwitch adds the arrival of a later reply before an older one.  *)
(* A client budget carries pos, its index in data.budgets.                   *)

\* the rows of apiService.records.list(ledgerId, {}) as Transaction objects
loadedTransactions(ledgerId) ==
  {dbRecordToTransaction(r, ledgerId) : r \in {x \in records : x.book_id = ledgerId}}

\* the lists apiService.budgets.list(ledgerId) can return, as Budget objects
loadedBudgets(ledgerId) ==
  {{[k \in DOMAIN dbBudgetToBudget(p[i], ledgerId) \cup {"pos"} |->
       IF k = "pos" THEN i ELSE dbBudgetToBudget(p[i], ledgerId)[k]] : i \in DOMAIN p}
     : p \in listBudgets(ledgerId, EmptyData)}

\* a Budget object appended to data.budgets
AtEnd(b, list) ==
  [k \in DOMAIN b \cup {"pos"} |-> IF k = "pos" THEN Cardinality(list) + 1 ELSE b[k]]

\* prev.ledgers.filter(l => l.id !== id)
WithoutLedger(list, id) == SelectSeq(list, LAMBDA l : l # id)

\* budgets.find(...): the first entry of the list with the key of budget
FindBudget(budget) ==
  {b \in clientBudgets : /\ SameBudgetKey(b, budget)
                         /\ \A c \in clientBudgets : SameBudgetKey(c, budget) => b.pos <= c.pos}

\* a load is in flight
LoadInFlight == \E i \in DOMAIN pending : pending[i].op = "loadLedger"

\* loadLedgerData(ledgerId) up to its await: records:list and budgets:list are
\* sent; item is what the function resumes on
loadLedgerData(ledgerId, queue) ==
  /\ \E bs \in loadedBudgets(ledgerId) :
       pending' = Append(queue, [op |-> "loadLedger", ledgerId |-> ledgerId,
                                 transactions |-> loadedTransactions(ledgerId),
                                 budgets |-> bs])
  /\ channel' = "budgets:list"
  /\ reply' = [success |-> TRUE, data |-> {b \in budgets : b.book_id = ledgerId}]
  /\ stmts' = 1

\* setActiveLedger(id): id !== data.activeLedgerId, then loadLedgerData(id)
SetActiveLedger(id) ==
  /\ id # activeLedgerId
  /\ loadLedgerData(id, pending)
  /\ selected' = [ledger |-> id, overlap |-> LoadInFlight]
  /\ UNCHANGED <<dbVars, uiVars, mainVars, clientLedgers, clientTransactions, tzOffset>>

\* addLedger(name) up to await apiService.books.add(name)
AddLedger(name) ==
  LET r == addBook([name |-> name])
  IN /\ Ipc("books:add", r.out)
     /\ books' = r.books
     /\ seq' = [seq EXCEPT !.books = r.id]
     /\ pending' = Append(pending, [op |-> "addLedger",
                                    result |-> IF r.out.threw THEN 0 ELSE r.out.value.id])
     /\ UNCHANGED <<members, records, budgets, foreign_keys, clock, uiVars, mainVars,
                    clientLedgers, clientTransactions, selected, tzOffset>>

\* deleteLedger(id) up to await apiService.books.delete(id); data.ledgers of the
\* call is kept for the statements after the await
DeleteLedger(id) ==
  LET r == deleteBook(id)
  IN /\ Ipc("books:delete", r.out)
     /\ books' = r.books
     /\ records' = r.records
     /\ budgets' = r.budgets
     /\ pending' = Append(pending, [op |-> "deleteLedger", id |-> id,
                                    success |-> ~r.out.threw /\ r.out.value.success,
                                    ledgers |-> clientLedgers])
     /\ UNCHANGED <<members, seq, foreign_keys, clock, uiVars, mainVars,
                    clientLedgers, clientTransactions, selected, tzOffset>>

\* addTransaction(t) up to await apiService.records.add(t)
AddTransaction(t) ==
  LET r == addRecord(transactionToDbRecord(t))
  IN /\ Ipc("records:add", r.out)
     /\ records' = r.records
     /\ seq' = [seq EXCEPT !.records = r.id]
     /\ pending' = Append(pending,
          [op |-> "addTransaction",
           result |-> IF r.out.threw THEN {}
                      ELSE {[id |-> r.out.value.id, ledgerId |-> t.ledgerId, type |-> t.type,
                             amount |-> t.amount, date |-> t.date,
                             categoryId |-> t.categoryId, memberId |-> t.memberId]}])
     /\ UNCHANGED <<books, members, budgets, foreign_keys, clock, uiVars, mainVars,
                    clientLedgers, clientTransactions, selected, tzOffset>>

\* setBudget(budget) up to its await: budgets:update for the entry data.budgets
\* holds under the key, budgets:add when it holds none
SetBudget(budget) ==
  IF FindBudget(budget) # {}
  THEN \E exists \in FindBudget(budget) :
         LET r == updateBudget(exists.id, budgetToUpdateData(budget))
         IN /\ Ipc("budgets:update", r.out)
            /\ budgets' = r.budgets
            /\ pending' = Append(pending, [op |-> "updateBudget", id |-> exists.id,
                                           budget |-> budget,
                                           success |-> ~r.out.threw /\ r.out.value.success])
            /\ UNCHANGED <<books, members, records, seq, foreign_keys, clock, uiVars, mainVars,
                           clientLedgers, clientTransactions, selected, tzOffset>>
  ELSE LET r == addBudget(budgetToDbBudget(budget))
       IN /\ Ipc("budgets:add", r.out)
          /\ budgets' = r.budgets
          /\ seq' = [seq EXCEPT !.budgets = r.id]
          /\ pending' = Append(pending,
               [op |-> "addBudget", budget |-> budget,
                result |-> IF r.out.threw THEN {}
                           ELSE {dbBudgetToBudget(r.out.value, budget.ledgerId)}])
          /\ UNCHANGED <<books, members, records, foreign_keys, clock, uiVars, mainVars,
                         clientLedgers, clientTransactions, selected, tzOffset>>

\* deleteBudget(id) up to await apiService.budgets.delete(id); refreshData of the
\* call reads data.activeLedgerId of the call
DeleteBudget(id) ==
  LET r == deleteBudget(id)
  IN /\ Ipc("budgets:delete", r.out)
     /\ budgets' = r.budgets
     /\ pending' = Append(pending, [op |-> "deleteBudget",
                                    success |-> ~r.out.threw /\ r.out.value.success,
                                    activeLedgerId |-> activeLedgerId])
     /\ UNCHANGED <<books, members, records, seq, foreign_keys, clock, uiVars, mainVars,
                    clientLedgers, clientTransactions, selected, tzOffset>>

\* the statements of a store function after its await, resumed on the reply item;
\* rest is the queue behind it
ResumeOn(item, rest) ==
  IF item.op = "loadLedger"
  THEN \* loadLedgerData: setData(prev => ({...prev, activeLedgerId: ledgerId, transactions, budgets}))
       /\ activeLedgerId' = item.ledgerId
       /\ clientTransactions' = item.transactions
       /\ clientBudgets' = item.budgets
       /\ pending' = rest
       /\ UNCHANGED <<dbVars, ipcVars, report, mainVars, clientLedgers, selected, tzOffset>>
  ELSE IF item.op = "addLedger"
  THEN /\ IF item.result # 0
          THEN /\ clientLedgers' = Append(clientLedgers, item.result)
               /\ activeLedgerId' = item.result
               /\ clientTransactions' = {}
               /\ clientBudgets' = {}
          ELSE UNCHANGED <<clientLedgers, activeLedgerId, clientTransactions, clientBudgets>>
       /\ pending' = rest
       /\ UNCHANGED <<dbVars, ipcVars, report, mainVars, selected, tzOffset>>
  ELSE IF item.op = "deleteLedger"
  THEN IF item.success
       THEN LET newLedgers == WithoutLedger(clientLedgers, item.id)
                remainingLedgers == WithoutLedger(item.ledgers, item.id)
            IN /\ clientLedgers' = newLedgers
               /\ activeLedgerId' = IF newLedgers # <<>> THEN newLedgers[1] ELSE 0
               /\ IF remainingLedgers # <<>>
                  THEN loadLedgerData(remainingLedgers[1], rest)
                  ELSE pending' = rest /\ UNCHANGED ipcVars
               /\ UNCHANGED <<dbVars, clientBudgets, report, mainVars, clientTransactions,
                              selected, tzOffset>>
       ELSE /\ pending' = rest
            /\ UNCHANGED <<dbVars, ipcVars, uiVars, mainVars, clientLedgers, clientTransactions,
                           selected, tzOffset>>
  ELSE IF item.op = "addTransaction"
  THEN \* setData(prev => ({...prev, transactions: [result, ...prev.transactions]}))
       /\ clientTransactions' = item.result \cup clientTransactions
       /\ pending' = rest
       /\ UNCHANGED <<dbVars, ipcVars, uiVars, mainVars, clientLedgers, selected, tzOffset>>
  ELSE IF item.op = "updateBudget"
  THEN \* prev.budgets.map(b => b.id === exists.id ? {...budget, id: exists.id} : b)
       /\ clientBudgets' =
            IF item.success
            THEN {IF b.id = item.id
                  THEN [k \in DOMAIN b |->
                          IF k \in {"id", "pos"} THEN b[k] ELSE item.budget[k]]
                  ELSE b : b \in clientBudgets}
            ELSE clientBudgets
       /\ pending' = rest
       /\ UNCHANGED <<dbVars, ipcVars, activeLedgerId, report, mainVars, clientLedgers,
                      clientTransactions, selected, tzOffset>>
  ELSE IF item.op = "addBudget"
  THEN \* setData(prev => ({...prev, budgets: [...prev.budgets, result]}))
       /\ clientBudgets' = clientBudgets \cup {AtEnd(b, clientBudgets) : b \in item.result}
       /\ pending' = rest
       /\ UNCHANGED <<dbVars, ipcVars, activeLedgerId, report, mainVars, clientLedgers,
                      clientTransactions, selected, tzOffset>>
  ELSE IF item.op = "deleteBudget"
  THEN \* refreshData -> loadData up to await Promise.all([books.list(), members.list()])
       IF item.success
       THEN /\ \E p \in Perms(books) :
                 pending' = Append(rest, [op |-> "loadData",
                                          activeLedgerId |-> item.activeLedgerId,
                                          ledgers |-> [i \in DOMAIN p |-> p[i].id]])
            /\ channel' = "members:list"
            /\ reply' = [success |-> TRUE, data |-> members]
            /\ stmts' = 1
            /\ UNCHANGED <<dbVars, uiVars, mainVars, clientLedgers, clientTransactions,
                           selected, tzOffset>>
       ELSE /\ pending' = rest
            /\ UNCHANGED <<dbVars, ipcVars, uiVars, mainVars, clientLedgers, clientTransactions,
                           selected, tzOffset>>
  ELSE IF item.op = "loadData"
  THEN \* loadData after the lists arrived: the active ledger is the one of the call,
       \* or the first ledger when the call had none
       LET active == IF item.activeLedgerId # 0 THEN item.activeLedgerId
                     ELSE IF item.ledgers # <<>> THEN item.ledgers[1] ELSE 0
       IN IF active # 0
          THEN /\ \E bs \in loadedBudgets(active) :
                    pending' = Append(rest, [op |-> "loadedData", activeLedgerId |-> active,
                                             ledgers |-> item.ledgers,
                                             transactions |-> loadedTransactions(active),
                                             budgets |-> bs])
               /\ channel' = "budgets:list"
               /\ reply' = [success |-> TRUE, data |-> {b \in budgets : b.book_id = active}]
               /\ stmts' = 1
               /\ UNCHANGED <<dbVars, uiVars, mainVars, clientLedgers, clientTransactions,
                              selected, tzOffset>>
          ELSE /\ activeLedgerId' = 0
               /\ clientLedgers' = item.ledgers
               /\ clientTransactions' = {}
               /\ clientBudgets' = {}
               /\ pending' = rest
               /\ UNCHANGED <<dbVars, ipcVars, report, mainVars, selected, tzOffset>>
  ELSE \* "loadedData": setData({activeLedgerId, ledgers, members, categories, transactions, budgets})
       /\ activeLedgerId' = item.activeLedgerId
       /\ clientLedgers' = item.ledgers
       /\ clientTransactions' = item.transactions
       /\ clientBudgets' = item.budgets
       /\ pending' = rest
       /\ UNCHANGED <<dbVars, ipcVars, report, mainVars, selected, tzOffset>>

\* the oldest reply arrives
Resume ==
  /\ pending # <<>>
  /\ ResumeOn(Head(pending), Tail(pending))

(* SpecBudgets: BudgetView in Electron, one call after the other: a call is   *)
(* made when no reply is outstanding.                                        *)

\* rows the model lets the store functions insert
MaxStoreRows == 3

StoreBudgetInputs ==
  {ClientBudget(0, 1, "expense", "food", 100, "monthly", 2024, 1),
   ClientBudget(0, 1, "expense", "food", 100, "monthly", 2024, 2),
   ClientBudget(0, 1, "expense", "food", 1200, "yearly", 2024, NoMonth),
   ClientBudget(0, 1, "expense", "rent", 50, "monthly", 2024, 1)}

InitBudgets ==
  /\ books = {[id |-> 1, name |-> "home"]}
  /\ members = {}
  /\ records = {}
  /\ budgets = {}
  /\ seq = [books |-> 1, members |-> 0, records |-> 0, budgets |-> 0]
  /\ foreign_keys = TRUE
  /\ clock = 0
  /\ channel = ""
  /\ reply = NoReply
  /\ stmts = 0
  /\ activeLedgerId = 1
  /\ clientBudgets = {}
  /\ report = NoReport
  /\ app = RunningApp
  /\ clientLedgers = <<1>>
  /\ clientTransactions = {}
  /\ pending = <<>>
  /\ selected = NoLoad
  /\ tzOffset = 0

NextBudgets ==
  \/ \E budget \in StoreBudgetInputs :
       /\ pending = <<>>
       /\ budget.ledgerId = activeLedgerId
       /\ Cardinality(clientBudgets) < MaxClientBudgets
       /\ seq.budgets < MaxStoreRows
       /\ SetBudget(budget)
  \/ \E id \in {b.id : b \in clientBudgets} : pending = <<>> /\ DeleteBudget(id)
  \/ Resume

SpecBudgets == InitBudgets /\ [][NextBudgets]_vars

\* C25: in Electron, when every setBudget and deleteBudget call on the active
\* ledger has completed, no two client entries share an id, and the client
\* entries and the budgets rows of the ledger correspond one to one with equal
\* category, direction, period and amount.
C25_ClientMirrorsTable ==
  pending = <<>> =>
    LET rows == {b \in budgets : b.book_id = activeLedgerId}
        Mirrors(c, row) ==
          /\ c.id = row.id
          /\ c.categoryId = row.category
          /\ c.type = row.direction
          /\ c.period = row.period
          /\ c.amount = row.amount
    IN /\ \A a, b \in clientBudgets : a.id = b.id => a = b
       /\ \A c \in clientBudgets : \E row \in rows : Mirrors(c, row)
       /\ \A row \in rows : \E c \in clientBudgets : Mirrors(c, row)

-----------------------------------------------------------------------------
(* SpecSwitch: the ledger selector in Electron.  Three ledgers are loaded and *)
(* the user picks ledgers while loads are outstanding.  loadLedgerData keeps  *)
(* no token of the latest call, so its continuation runs on whichever reply   *)
(* arrives: Resume takes the oldest, ResumeOutOfOrder a later one.            *)

\* loads the model lets be outstanding at once
MaxLoads == 3

SwitchLedgers == 1..3

\* the queue without its i-th reply
WithoutReply(queue, i) == [j \in 1..(Len(queue) - 1) |-> IF j < i THEN queue[j] ELSE queue[j + 1]]

\* the reply of a load arrives before the reply of an older load
ResumeOutOfOrder ==
  \E i \in 2..Len(pending) :
    /\ pending[i].op = "loadLedger"
    /\ ResumeOn(pending[i], WithoutReply(pending, i))

InitSwitch ==
  /\ books = {[id |-> 1, name |-> "home"], [id |-> 2, name |-> "work"], [id |-> 3, name |-> "trip"]}
  /\ members = {}
  /\ records = {[id |-> 1, book_id |-> 1, member_id |-> NoMember, direction |-> "expense",
                 category |-> "food", amount |-> 10, date |-> 1, note |-> NoText, created_at |-> 0],
                [id |-> 2, book_id |-> 2, member_id |-> NoMember, direction |-> "expense",
                 category |-> "rent", amount |-> 20, date |-> 1, note |-> NoText, created_at |-> 0]}
  /\ budgets = {[id |-> 1, book_id |-> 2, member_id |-> NoMember, direction |-> "expense", category |-> "rent",
                 amount |-> 50, period |-> "monthly", date |-> Iso(2024, 1, 1)]}
  /\ seq = [books |-> 3, members |-> 0, records |-> 2, budgets |-> 1]
  /\ foreign_keys = TRUE
  /\ clock = 0
  /\ channel = ""
  /\ reply = NoReply
  /\ stmts = 0
  /\ activeLedgerId = 1
  /\ clientBudgets = {}
  /\ report = NoReport
  /\ app = RunningApp
  /\ clientLedgers = <<1, 2, 3>>
  /\ clientTransactions = loadedTransactions(1)
  /\ pending = <<>>
  /\ selected = NoLoad
  /\ tzOffset = 0

NextSwitch ==
  \/ \E id \in SwitchLedgers : Len(pending) < MaxLoads /\ SetActiveLedger(id)
  \/ Resume
  \/ ResumeOutOfOrder

SpecSwitch == InitSwitch /\ [][NextSwitch]_vars

\* the client state shows ledger id
ShowsLedger(id) ==
  /\ activeLedgerId = id
  /\ clientTransactions = loadedTransactions(id)
  /\ {b.id : b \in clientBudgets} = {b.id : b \in {x \in budgets : x.book_id = id}}
  /\ \A b \in clientBudgets : b.ledgerId = id

-----------------------------------------------------------------------------
(* SpecStore: the renderer in Electron from a store with one member and no    *)
(* ledger: ledgers are added, selected and deleted, and transactions and     *)
(* budgets are entered for the active ledger, also while replies are         *)
(* outstanding.                                                              *)

\* what TransactionInput.handleSubmit passes for the active ledger
StoreTransaction(ledgerId) ==
  [ledgerId |-> ledgerId, type |-> "expense", amount |-> 10, date |-> Iso(2024, 1, 5),
   categoryId |-> "food", memberId |-> 1]

\* what BudgetView.handleSaveBudget passes for the active ledger
StoreBudget(ledgerId) ==
  ClientBudget(0, ledgerId, "expense", "food", 100, "monthly", 2024, 1)

InitStore ==
  /\ books = {}
  /\ members = {[id |-> 1, name |-> "mom"]}
  /\ records = {}
  /\ budgets = {}
  /\ seq = [books |-> 0, members |-> 1, records |-> 0, budgets |-> 0]
  /\ foreign_keys = TRUE
  /\ clock = 0
  /\ channel = ""
  /\ reply = NoReply
  /\ stmts = 0
  /\ activeLedgerId = 0
  /\ clientBudgets = {}
  /\ report = NoReport
  /\ app = RunningApp
  /\ IdleStore

StoreRoom == seq.books + seq.records + seq.budgets < MaxStoreRows
CallRoom == Len(pending) < MaxLoads

NextStore ==
  \/ CallRoom /\ StoreRoom /\ AddLedger("home")
  \/ \E i \in DOMAIN clientLedgers : CallRoom /\ DeleteLedger(clientLedgers[i])
  \/ \E i \in DOMAIN clientLedgers : CallRoom /\ SetActiveLedger(clientLedgers[i])
  \/ CallRoom /\ StoreRoom /\ activeLedgerId # 0 /\ AddTransaction(StoreTransaction(activeLedgerId))
  \/ CallRoom /\ StoreRoom /\ activeLedgerId # 0 /\ SetBudget(StoreBudget(activeLedgerId))
  \/ Resume

SpecStore == InitStore /\ [][NextStore]_vars

\* C29: in Electron, when no request is in flight, activeLedgerId is '' or the
\* id of a ledger of the client ledger list, and every transaction and budget
\* of the client state has ledgerId = activeLedgerId.
C29_ClientStateOfActiveLedger ==
  pending = <<>> =>
    /\ activeLedgerId = 0 \/ \E i \in DOMAIN clientLedgers : clientLedgers[i] = activeLedgerId
    /\ \A t \in clientTransactions : t.ledgerId = activeLedgerId
    /\ \A b \in clientBudgets : b.ledgerId = activeLedgerId

\* the first part alone: the active ledger is '' or a ledger of the list
ActiveLedgerListed ==
  pending = <<>> =>
    (activeLedgerId = 0 \/ \E i \in DOMAIN clientLedgers : clientLedgers[i] = activeLedgerId)

-----------------------------------------------------------------------------
(* SpecDates: BudgetView in Electron on machines in different time zones.     *)
(* The zone is fixed when the renderer starts; budgets are saved one call     *)
(* after the other.                                                          *)

\* local offsets from UTC in hours: west of UTC, UTC, east of UTC
TimeZones == {-5, 0, 8}

DateBudgetInputs ==
  {ClientBudget(0, 1, "expense", "food", 100, "monthly", 2024, 1),
   ClientBudget(0, 1, "expense", "food", 100, "monthly", 2024, 3),
   ClientBudget(0, 1, "expense", "rent", 600, "yearly", 2024, NoMonth),
   ClientBudget(0, 1, "expense", "fuel", 50, "monthly", 2025, 12)}

InitDates ==
  /\ books = {[id |-> 1, name |-> "home"]}
  /\ members = {}
  /\ records = {}
  /\ budgets = {}
  /\ seq = [books |-> 1, members |-> 0, records |-> 0, budgets |-> 0]
  /\ foreign_keys = TRUE
  /\ clock = 0
  /\ channel = ""
  /\ reply = NoReply
  /\ stmts = 0
  /\ activeLedgerId = 1
  /\ clientBudgets = {}
  /\ report = NoReport
  /\ app = RunningApp
  /\ clientLedgers = <<1>>
  /\ clientTransactions = {}
  /\ pending = <<>>
  /\ selected = NoLoad
  /\ tzOffset \in TimeZones

NextDates ==
  \/ \E budget \in DateBudgetInputs :
       /\ pending = <<>>
       /\ Cardinality(clientBudgets) < MaxClientBudgets
       /\ seq.budgets < MaxStoreRows
       /\ SetBudget(budget)
  \/ Resume

SpecDates == InitDates /\ [][NextDates]_vars

\* C27: the Budget object apiService.budgets.add returns for a budget of
\* (year, month), month 1 for a yearly budget, has that year and that month, in
\* every time zone.
C27_BudgetPeriodRoundTrip ==
  \A i \in DOMAIN pending :
    pending[i].op = "addBudget" =>
      \A result \in pending[i].result :
        /\ result.year = pending[i].budget.year
        /\ result.month = IF pending[i].budget.month = NoMonth THEN 1 ELSE pending[i].budget.month

\* the round trip in a zone at UTC
RoundTripAtUtc == tzOffset = 0 => C27_BudgetPeriodRoundTrip

-----------------------------------------------------------------------------
(* SpecIsolation: two ledgers and a member exist; records and budgets of both *)
(* ledgers are added, updated and deleted, and the member is renamed and     *)
(* deleted.  Ledger isolation is checked on every step: the two store states *)
(* compared are the states before and after the step.                        *)

\* records and budgets the model lets be inserted
MaxIsolationRows == 2

InitIsolation ==
  /\ books = {[id |-> 1, name |-> "home"], [id |-> 2, name |-> "trip"]}
  /\ members = {[id |-> 1, name |-> "mom"]}
  /\ records = {}
  /\ budgets = {}
  /\ seq = [books |-> 2, members |-> 1, records |-> 0, budgets |-> 0]
  /\ foreign_keys \in BOOLEAN
  /\ clock = 0
  /\ channel = ""
  /\ reply = NoReply
  /\ stmts = 0
  /\ activeLedgerId = 0
  /\ clientBudgets = {}
  /\ report = NoReport
  /\ app = RunningApp
  /\ IdleStore

IsolationRoom == seq.records + seq.budgets < MaxIsolationRows

NextIsolation ==
  \/ \E d \in RecordInputs : IsolationRoom /\ IpcRecordsAdd(d)
  \/ \E id \in 1..seq.records, d \in RecordUpdates : IpcRecordsUpdate(id, d)
  \/ \E id \in 1..seq.records : IpcRecordsDelete(id)
  \/ \E d \in CompleteBudgetInputs : IsolationRoom /\ IpcBudgetsAdd(d)
  \/ \E id \in 1..seq.budgets, d \in BudgetUpdates : IpcBudgetsUpdate(id, d)
  \/ \E id \in 1..seq.budgets : IpcBudgetsDelete(id)
  \/ \E d \in MemberUpdates : IpcMembersUpdate(1, d)
  \/ IpcMembersDelete(1)

SpecIsolation == InitIsolation /\ [][NextIsolation]_vars

\* the records and budgets of ledger A
RowsOf(A) == <<{r \in records : r.book_id = A}, {b \in budgets : b.book_id = A}>>

\* the members the rows of ledger A reference
MembersOf(A) ==
  {m \in members : \/ \E r \in records : r.book_id = A /\ r.member_id = m.id
                   \/ \E b \in budgets : b.book_id = A /\ b.member_id = m.id}

\* what the five queries return for ledger A
QueriesOf(A) ==
  [o \in QueryOptions |->
     <<listRecords(A, o), getSummary(A, o), getCategorySummary(A, o),
       listBudgets(A, o), getBudgetExecution(A, o)>>]

\* the step is an add, update or delete of a record or budget of a ledger other
\* than A
WritesOtherLedger(A) ==
  \/ /\ channel' = "records:add"
     /\ \E d \in RecordInputs : d.book_id # A /\ IpcRecordsAdd(d)
  \/ /\ channel' = "records:update"
     /\ \E r \in records, d \in RecordUpdates : r.book_id # A /\ IpcRecordsUpdate(r.id, d)
  \/ /\ channel' = "records:delete"
     /\ \E r \in records : r.book_id # A /\ IpcRecordsDelete(r.id)
  \/ /\ channel' = "budgets:add"
     /\ \E d \in CompleteBudgetInputs : d.book_id # A /\ IpcBudgetsAdd(d)
  \/ /\ channel' = "budgets:update"
     /\ \E b \in budgets, d \in BudgetUpdates : b.book_id # A /\ IpcBudgetsUpdate(b.id, d)
  \/ /\ channel' = "budgets:delete"
     /\ \E b \in budgets : b.book_id # A /\ IpcBudgetsDelete(b.id)

StoreChanged == <<members, records, budgets>>' # <<members, records, budgets>>

\* C28 as stated: two store states that agree on the records and budgets of
\* ledger A give the same results of listRecords, getSummary, getCategorySummary,
\* listBudgets and getBudgetExecution for A, and no add, update or delete of a
\* record or budget of another ledger changes a row of A.
C28_Original ==
  [][StoreChanged =>
       \A A \in BookIds :
         /\ RowsOf(A)' = RowsOf(A) => QueriesOf(A)' = QueriesOf(A)
         /\ WritesOtherLedger(A) => RowsOf(A)' = RowsOf(A)]_vars

\* C28 (amended): two store states that agree on the records and budgets of
\* ledger A and on the members those rows reference give the same results of the
\* five queries for A, and no add, update or delete of a record or budget of
\* another ledger changes a row of A.
C28_LedgerIsolation ==
  [][StoreChanged =>
       \A A \in BookIds :
         /\ (RowsOf(A)' = RowsOf(A) /\ MembersOf(A)' = MembersOf(A)) => QueriesOf(A)' = QueriesOf(A)
         /\ WritesOtherLedger(A) => RowsOf(A)' = RowsOf(A)]_vars

\* budgets:add has stored a budget of ledger 2 in a category for which ledger 1
\* holds a budget too
C28_Witness ==
  /\ channel = "budgets:add" /\ reply.success
  /\ reply.data.book_id = 2
  /\ \E a \in budgets : a.book_id = 1 /\ a.category = reply.data.category
  /\ \E b \in budgets : b.book_id = 2 /\ b.id = reply.data.id

-----------------------------------------------------------------------------
(* The yearly budget over the twelve months of the report, under SpecReport  *)

\* the figure is a whole number
Exact(fig) == fig.num % fig.den = 0

\* the sum of the twelve figures of the direction, each a whole number
SumOfFigures(type) ==
  SumOver(Months, [m \in Months |-> Figure(report.chartData[m], type).num
                                      \div Figure(report.chartData[m], type).den])

\* C30: for a direction and year in which at least one month has no explicit
\* monthly budget, the twelve monthly budget figures of the report add up to the
\* sum of the yearly budgets (when every figure is a whole number), and no
\* figure is negative.
C30_FallbackConservesYearly ==
  Rendered =>
    \A type \in ReportTypes :
      LackingObject(type, report.year) # {} =>
        /\ (\A m \in Months : Exact(Figure(report.chartData[m], type))) =>
             SumOfFigures(type) = SumAmount(YearlyOf(type, report.year))
        /\ \A m \in Months : Figure(report.chartData[m], type).num >= 0

\* the twelve figures add up to the yearly budgets when no budget amount is negative
ConservesNonNegativeAmounts ==
  Rendered =>
    \A type \in ReportTypes :
      ( /\ LackingObject(type, report.year) # {}
        /\ \A b \in MonthlyOf(type, report.year) : b.amount >= 0
        /\ \A m \in Months : Exact(Figure(report.chartData[m], type)) ) =>
        SumOfFigures(type) = SumAmount(YearlyOf(type, report.year))

\* no figure is negative when the monthly budgets do not exceed the yearly ones
\* and no budget amount is negative
NonNegativeWithinYearly ==
  Rendered =>
    \A type \in ReportTypes :
      ( /\ \A b \in MonthlyOf(type, report.year) : b.amount >= 0
        /\ Remainder(type, report.year) >= 0 ) =>
        \A m \in Months : Figure(report.chartData[m], type).num >= 0

====
